---- MODULE Spec2Model ----
(***************************************************************************)
(* Assessment & Progress Engine of the online learning platform.           *)
(*                                                                         *)
(* The data store is a set of tables (sequences of rows) and, per table,   *)
(* the sequence its serial ids are drawn from; an INSERT draws an id       *)
(* whether or not it is accepted, and a SELECT without ORDER BY returns    *)
(* its rows in any order.  Every handler is a sequence                     *)
(* of data-store round trips (each `await db...execute()`), and each round *)
(* trip is one atomic step of the calling process.  A process is one       *)
(* request being served; the sequential specifications run one request at  *)
(* a time, the concurrent ones let two requests interleave between round   *)
(* trips.                                                                  *)
(*                                                                         *)
(* Numbers the code computes with `/` and `*` are IEEE 754 doubles, kept   *)
(* bit by bit; a real column holds the single-precision number nearest to  *)
(* what is written to it, kept as the fraction [num, den] it denotes, and  *)
(* a value read back from the column is that number.  Strings the code     *)
(* trims and lower-cases are sequences of UTF-16 code units.  A nullable   *)
(* column holds Null (<<>>) or Some(v) (<<v>>).                            *)
(***************************************************************************)
EXTENDS Integers, Sequences, FiniteSets, TLC

VARIABLES
    usersTable,          \* users: [id, email, role]
    testsTable,          \* tests: [id, course_id, max_attempts, passing_score]
    questionsTable,      \* questions: [id, test_id, correct_answer, points]
    lessonsTable,        \* lessons: [id, course_id]
    coursesTable,        \* courses: [id]
    enrollmentsTable,    \* enrollments
    testAttemptsTable,   \* test_attempts
    lessonProgressTable, \* lesson_progress
    consultationSlotsTable, \* consultation_slots
    serial,              \* per table: the last id its sequence has issued
    now,                 \* the clock read by `new Date()`
    pc,                  \* per process: the round trip it is about to make
    input,               \* per process: the handler's input
    local,               \* per process: the handler's local constants
    result,              \* per process: outcome of its last finished call
    wrote                \* per process: its call has changed an engine table

vars == <<usersTable, testsTable, questionsTable, lessonsTable, coursesTable,
          enrollmentsTable, testAttemptsTable, lessonProgressTable,
          consultationSlotsTable, serial, now,
          pc, input, local, result, wrote>>

\* the tables that createTestAttempt, submitTestAttempt, createEnrollment and
\* markLessonComplete only read
catalog == <<usersTable, testsTable, questionsTable, lessonsTable, coursesTable,
             consultationSlotsTable>>

\* the tables the engine writes
store == <<enrollmentsTable, testAttemptsTable, lessonProgressTable>>

(***************************************************************************)
(* Bounds of the model.                                                    *)
(***************************************************************************)
MaxAttempts == 2   \* max_attempts of a test ranges over 1..MaxAttempts
MaxTime == 1       \* the clock ranges over 0..MaxTime
MaxLen == 2        \* submitted answer strings have at most MaxLen characters
MaxPoints == 2     \* points of a question range over 1..MaxPoints
MaxLessons == 3    \* a course has 1..MaxLessons lessons
MaxQuestions == 1  \* createQuestion adds at most MaxQuestions questions
MaxGaps == 1       \* requests that lose an id stop at MaxGaps lost ids
MaxSlots == 3      \* createConsultationSlot adds slots up to MaxSlots
MaxUsers == 2      \* registerUser adds users up to MaxUsers
MaxCourses == 1    \* createCourse and createTest add up to MaxCourses rows

Procs == {1, 2}

(***************************************************************************)
(* Nullable values.                                                        *)
(***************************************************************************)
Null == <<>>
Some(v) == <<v>>
IsNull(x) == x = <<>>
Val(x) == x[1]

(***************************************************************************)
(* The values of real columns.  A real column holds a single-precision     *)
(* number; the model writes it as the exact fraction it denotes.           *)
(***************************************************************************)
RECURSIVE GCD(_, _)
GCD(a, b) == IF b = 0 THEN a ELSE GCD(b, a % b)

\* a / b as a fraction in lowest terms (a >= 0, b > 0)
Frac(a, b) == LET g == GCD(a, b) IN [num |-> a \div g, den |-> b \div g]

\* the number n
Num(n) == [num |-> n, den |-> 1]

(***************************************************************************)
(* JavaScript numbers: IEEE 754 double precision, round to nearest, ties   *)
(* to even.  A positive number is [exp |-> e, sig |-> b]: b holds the      *)
(* DoubleBits significant bits, the first of them 1 and worth 2^e.  The    *)
(* handlers compute with non-negative numbers far from the ends of the     *)
(* exponent range.                                                         *)
(***************************************************************************)
DoubleBits == 53
RealBits == 24

Zero == [exp |-> 0, sig |-> <<>>]

Pow2(n) == 2 ^ n

\* the w low binary digits of n, the most significant first
Digits(n, w) == [i \in 1..w |-> (n \div Pow2(w - i)) % 2]

\* the binary digits of n (n < 2^30), the most significant first
BitsOf(n) ==
    Digits(n, CHOOSE w \in 0..30 : n < Pow2(w) /\ (w = 0 \/ Pow2(w - 1) <= n))

\* the number a bit string of fewer than 31 digits denotes
RECURSIVE ValueOf(_)
ValueOf(bits) ==
    LET n == Len(bits)
        h == n \div 2
    IN  IF n = 0 THEN 0
        ELSE IF n = 1 THEN bits[1]
        ELSE ValueOf(SubSeq(bits, 1, h)) * Pow2(n - h)
                 + ValueOf(SubSeq(bits, h + 1, n))

\* bits + 1, for a bit string that has a 0
Increment(bits) ==
    LET k == CHOOSE i \in DOMAIN bits :
                 bits[i] = 0 /\ \A j \in (i + 1)..Len(bits) : bits[j] = 1
    IN  [i \in DOMAIN bits |->
             IF i < k THEN bits[i] ELSE IF i = k THEN 1 ELSE 0]

\* the number with p significant bits nearest to the number whose binary
\* digits are `bits` (the first of them 1 and worth 2^exp), followed by
\* further non-zero digits when `sticky`; ties go to the even neighbour
Round(bits, sticky, exp, p) ==
    LET n == Len(bits)
        kept == [i \in 1..p |-> IF i <= n THEN bits[i] ELSE 0]
        guard == IF n > p THEN bits[p + 1] ELSE 0
        rest == sticky \/ \E i \in (p + 2)..n : bits[i] = 1
        up == guard = 1 /\ (rest \/ kept[p] = 1)
    IN  IF ~up THEN [exp |-> exp, sig |-> kept]
        ELSE IF \A i \in 1..p : kept[i] = 1
        THEN [exp |-> exp + 1, sig |-> [i \in 1..p |-> IF i = 1 THEN 1 ELSE 0]]
        ELSE [exp |-> exp, sig |-> Increment(kept)]

\* the integer n as a number
DoubleOf(n) ==
    IF n = 0 THEN Zero
    ELSE Round(BitsOf(n), FALSE, Len(BitsOf(n)) - 1, DoubleBits)

\* the e with 2^e <= a / b < 2^(e + 1)
RECURSIVE ExponentOf(_, _)
ExponentOf(a, b) ==
    IF a >= 2 * b THEN ExponentOf(a, 2 * b) + 1
    ELSE IF a < b THEN ExponentOf(2 * a, b) - 1
    ELSE 0

\* the next n binary digits of r / d (r < d < 2^23), and what remains; eight
\* digits at a time
RECURSIVE QuotientBits(_, _, _)
QuotientBits(r, d, n) ==
    IF n = 0 THEN [bits |-> <<>>, rem |-> r]
    ELSE LET k == IF n < 8 THEN n ELSE 8
             next == QuotientBits((r * Pow2(k)) % d, d, n - k)
         IN  [bits |-> Digits((r * Pow2(k)) \div d, k) \o next.bits,
              rem |-> next.rem]

\* a / b for integers a >= 0 and b > 0
Divide(a, b) ==
    IF a = 0 THEN Zero
    ELSE LET e == ExponentOf(a, b)
             n0 == IF e < 0 THEN a * Pow2(-e) ELSE a
             d0 == IF e > 0 THEN b * Pow2(e) ELSE b
             q == QuotientBits(n0 - d0, d0, DoubleBits)
         IN  Round(<<1>> \o q.bits, q.rem # 0, e, DoubleBits)

\* the binary digits of bits * n + carry (n and carry below 2^20); eight
\* digits at a time
RECURSIVE MulSmall(_, _, _)
MulSmall(bits, n, carry) ==
    IF bits = <<>> THEN BitsOf(carry)
    ELSE LET len == Len(bits)
             k == IF len < 8 THEN len ELSE 8
             t == ValueOf(SubSeq(bits, len - k + 1, len)) * n + carry
         IN  MulSmall(SubSeq(bits, 1, len - k), n, t \div Pow2(k))
                 \o Digits(t, k)

\* x * n for a number x and an integer n >= 0
Times(x, n) ==
    IF x = Zero \/ n = 0 THEN Zero
    ELSE LET product == MulSmall(x.sig, n, 0)
         IN  Round(product, FALSE, x.exp + Len(product) - Len(x.sig),
                   DoubleBits)

\* x >= y
Geq(x, y) ==
    IF y = Zero THEN TRUE
    ELSE IF x = Zero THEN FALSE
    ELSE IF x.exp # y.exp THEN x.exp > y.exp
    ELSE LET differ == {i \in DOMAIN x.sig : x.sig[i] # y.sig[i]}
         IN  differ = {} \/ x.sig[CHOOSE i \in differ :
                                      \A j \in differ : i <= j] = 1

\* the value a real column takes when the number x is written to it: the
\* single-precision number nearest to x
ToReal(x) ==
    IF x = Zero THEN Num(0)
    ELSE LET r == Round(x.sig, FALSE, x.exp, RealBits)
             m == ValueOf(r.sig)
         IN  IF r.exp >= RealBits - 1
             THEN Num(m * Pow2(r.exp - (RealBits - 1)))
             ELSE Frac(m, Pow2((RealBits - 1) - r.exp))

(***************************************************************************)
(* Strings are sequences of UTF-16 code units: "a" is <<97>>, "A" is <<65>>, *)
(* " " is <<32>>.  String.prototype.trim and String.prototype.toLowerCase. *)
(***************************************************************************)
\* the code units of the strings the specifications submit: " ", "a", "A"
Chars == {32, 97, 65}

\* what trim() removes: WhiteSpace (TAB, VT, FF, SP, NBSP, ZWNBSP and the
\* other space separators) and LineTerminator (LF, CR, LS, PS)
WhiteSpace ==
    {9, 11, 12, 32, 160, 5760, 8239, 8287, 12288, 65279} \cup 8192..8202
        \cup {10, 13, 8232, 8233}

\* the code points toLowerCase() changes, by Unicode's simple lower-case
\* mapping (UnicodeData.txt, version 17.0): each <<first, last, step, offset>>
\* says that the code points first, first + step, ..., last map to
\* themselves plus offset
LowerMappings ==
    <<
    <<65, 90, 1, 32>>, <<192, 214, 1, 32>>, <<216, 222, 1, 32>>,
    <<256, 302, 2, 1>>, <<306, 310, 2, 1>>, <<313, 327, 2, 1>>,
    <<330, 374, 2, 1>>, <<376, 376, 1, -121>>, <<377, 381, 2, 1>>,
    <<385, 385, 1, 210>>, <<386, 388, 2, 1>>, <<390, 390, 1, 206>>,
    <<391, 391, 1, 1>>, <<393, 394, 1, 205>>, <<395, 395, 1, 1>>,
    <<398, 398, 1, 79>>, <<399, 399, 1, 202>>, <<400, 400, 1, 203>>,
    <<401, 401, 1, 1>>, <<403, 403, 1, 205>>, <<404, 404, 1, 207>>,
    <<406, 406, 1, 211>>, <<407, 407, 1, 209>>, <<408, 408, 1, 1>>,
    <<412, 412, 1, 211>>, <<413, 413, 1, 213>>, <<415, 415, 1, 214>>,
    <<416, 420, 2, 1>>, <<422, 422, 1, 218>>, <<423, 423, 1, 1>>,
    <<425, 425, 1, 218>>, <<428, 428, 1, 1>>, <<430, 430, 1, 218>>,
    <<431, 431, 1, 1>>, <<433, 434, 1, 217>>, <<435, 437, 2, 1>>,
    <<439, 439, 1, 219>>, <<440, 440, 1, 1>>, <<444, 444, 1, 1>>,
    <<452, 452, 1, 2>>, <<453, 453, 1, 1>>, <<455, 455, 1, 2>>,
    <<456, 456, 1, 1>>, <<458, 458, 1, 2>>, <<459, 475, 2, 1>>,
    <<478, 494, 2, 1>>, <<497, 497, 1, 2>>, <<498, 500, 2, 1>>,
    <<502, 502, 1, -97>>, <<503, 503, 1, -56>>, <<504, 542, 2, 1>>,
    <<544, 544, 1, -130>>, <<546, 562, 2, 1>>, <<570, 570, 1, 10795>>,
    <<571, 571, 1, 1>>, <<573, 573, 1, -163>>, <<574, 574, 1, 10792>>,
    <<577, 577, 1, 1>>, <<579, 579, 1, -195>>, <<580, 580, 1, 69>>,
    <<581, 581, 1, 71>>, <<582, 590, 2, 1>>, <<880, 882, 2, 1>>,
    <<886, 886, 1, 1>>, <<895, 895, 1, 116>>, <<902, 902, 1, 38>>,
    <<904, 906, 1, 37>>, <<908, 908, 1, 64>>, <<910, 911, 1, 63>>,
    <<913, 929, 1, 32>>, <<931, 939, 1, 32>>, <<975, 975, 1, 8>>,
    <<984, 1006, 2, 1>>, <<1012, 1012, 1, -60>>, <<1015, 1015, 1, 1>>,
    <<1017, 1017, 1, -7>>, <<1018, 1018, 1, 1>>, <<1021, 1023, 1, -130>>,
    <<1024, 1039, 1, 80>>, <<1040, 1071, 1, 32>>, <<1120, 1152, 2, 1>>,
    <<1162, 1214, 2, 1>>, <<1216, 1216, 1, 15>>, <<1217, 1229, 2, 1>>,
    <<1232, 1326, 2, 1>>, <<1329, 1366, 1, 48>>, <<4256, 4293, 1, 7264>>,
    <<4295, 4295, 1, 7264>>, <<4301, 4301, 1, 7264>>,
    <<5024, 5103, 1, 38864>>, <<5104, 5109, 1, 8>>, <<7305, 7305, 1, 1>>,
    <<7312, 7354, 1, -3008>>, <<7357, 7359, 1, -3008>>, <<7680, 7828, 2, 1>>,
    <<7838, 7838, 1, -7615>>, <<7840, 7934, 2, 1>>, <<7944, 7951, 1, -8>>,
    <<7960, 7965, 1, -8>>, <<7976, 7983, 1, -8>>, <<7992, 7999, 1, -8>>,
    <<8008, 8013, 1, -8>>, <<8025, 8031, 2, -8>>, <<8040, 8047, 1, -8>>,
    <<8072, 8079, 1, -8>>, <<8088, 8095, 1, -8>>, <<8104, 8111, 1, -8>>,
    <<8120, 8121, 1, -8>>, <<8122, 8123, 1, -74>>, <<8124, 8124, 1, -9>>,
    <<8136, 8139, 1, -86>>, <<8140, 8140, 1, -9>>, <<8152, 8153, 1, -8>>,
    <<8154, 8155, 1, -100>>, <<8168, 8169, 1, -8>>, <<8170, 8171, 1, -112>>,
    <<8172, 8172, 1, -7>>, <<8184, 8185, 1, -128>>, <<8186, 8187, 1, -126>>,
    <<8188, 8188, 1, -9>>, <<8486, 8486, 1, -7517>>, <<8490, 8490, 1, -8383>>,
    <<8491, 8491, 1, -8262>>, <<8498, 8498, 1, 28>>, <<8544, 8559, 1, 16>>,
    <<8579, 8579, 1, 1>>, <<9398, 9423, 1, 26>>, <<11264, 11311, 1, 48>>,
    <<11360, 11360, 1, 1>>, <<11362, 11362, 1, -10743>>,
    <<11363, 11363, 1, -3814>>, <<11364, 11364, 1, -10727>>,
    <<11367, 11371, 2, 1>>, <<11373, 11373, 1, -10780>>,
    <<11374, 11374, 1, -10749>>, <<11375, 11375, 1, -10783>>,
    <<11376, 11376, 1, -10782>>, <<11378, 11378, 1, 1>>,
    <<11381, 11381, 1, 1>>, <<11390, 11391, 1, -10815>>,
    <<11392, 11490, 2, 1>>, <<11499, 11501, 2, 1>>, <<11506, 11506, 1, 1>>,
    <<42560, 42604, 2, 1>>, <<42624, 42650, 2, 1>>, <<42786, 42798, 2, 1>>,
    <<42802, 42862, 2, 1>>, <<42873, 42875, 2, 1>>,
    <<42877, 42877, 1, -35332>>, <<42878, 42886, 2, 1>>,
    <<42891, 42891, 1, 1>>, <<42893, 42893, 1, -42280>>,
    <<42896, 42898, 2, 1>>, <<42902, 42920, 2, 1>>,
    <<42922, 42922, 1, -42308>>, <<42923, 42923, 1, -42319>>,
    <<42924, 42924, 1, -42315>>, <<42925, 42925, 1, -42305>>,
    <<42926, 42926, 1, -42308>>, <<42928, 42928, 1, -42258>>,
    <<42929, 42929, 1, -42282>>, <<42930, 42930, 1, -42261>>,
    <<42931, 42931, 1, 928>>, <<42932, 42946, 2, 1>>,
    <<42948, 42948, 1, -48>>, <<42949, 42949, 1, -42307>>,
    <<42950, 42950, 1, -35384>>, <<42951, 42953, 2, 1>>,
    <<42955, 42955, 1, -42343>>, <<42956, 42970, 2, 1>>,
    <<42972, 42972, 1, -42561>>, <<42997, 42997, 1, 1>>,
    <<65313, 65338, 1, 32>>, <<66560, 66599, 1, 40>>, <<66736, 66771, 1, 40>>,
    <<66928, 66938, 1, 39>>, <<66940, 66954, 1, 39>>, <<66956, 66962, 1, 39>>,
    <<66964, 66965, 1, 39>>, <<68736, 68786, 1, 64>>, <<68944, 68965, 1, 32>>,
    <<71840, 71871, 1, 32>>, <<93760, 93791, 1, 32>>, <<93856, 93880, 1, 27>>,
    <<125184, 125217, 1, 34>>
    >>

\* the code points with the property Case_Ignorable
\* (DerivedCoreProperties.txt, version 17.0), as <<first, last>>
CaseIgnorable ==
    <<
    <<39, 39>>, <<46, 46>>, <<58, 58>>, <<94, 94>>, <<96, 96>>, <<168, 168>>,
    <<173, 173>>, <<175, 175>>, <<180, 180>>, <<183, 184>>, <<688, 879>>,
    <<884, 885>>, <<890, 890>>, <<900, 901>>, <<903, 903>>, <<1155, 1161>>,
    <<1369, 1369>>, <<1375, 1375>>, <<1425, 1469>>, <<1471, 1471>>,
    <<1473, 1474>>, <<1476, 1477>>, <<1479, 1479>>, <<1524, 1524>>,
    <<1536, 1541>>, <<1552, 1562>>, <<1564, 1564>>, <<1600, 1600>>,
    <<1611, 1631>>, <<1648, 1648>>, <<1750, 1757>>, <<1759, 1768>>,
    <<1770, 1773>>, <<1807, 1807>>, <<1809, 1809>>, <<1840, 1866>>,
    <<1958, 1968>>, <<2027, 2037>>, <<2042, 2042>>, <<2045, 2045>>,
    <<2070, 2093>>, <<2137, 2139>>, <<2184, 2184>>, <<2192, 2193>>,
    <<2199, 2207>>, <<2249, 2306>>, <<2362, 2362>>, <<2364, 2364>>,
    <<2369, 2376>>, <<2381, 2381>>, <<2385, 2391>>, <<2402, 2403>>,
    <<2417, 2417>>, <<2433, 2433>>, <<2492, 2492>>, <<2497, 2500>>,
    <<2509, 2509>>, <<2530, 2531>>, <<2558, 2558>>, <<2561, 2562>>,
    <<2620, 2620>>, <<2625, 2626>>, <<2631, 2632>>, <<2635, 2637>>,
    <<2641, 2641>>, <<2672, 2673>>, <<2677, 2677>>, <<2689, 2690>>,
    <<2748, 2748>>, <<2753, 2757>>, <<2759, 2760>>, <<2765, 2765>>,
    <<2786, 2787>>, <<2810, 2815>>, <<2817, 2817>>, <<2876, 2876>>,
    <<2879, 2879>>, <<2881, 2884>>, <<2893, 2893>>, <<2901, 2902>>,
    <<2914, 2915>>, <<2946, 2946>>, <<3008, 3008>>, <<3021, 3021>>,
    <<3072, 3072>>, <<3076, 3076>>, <<3132, 3132>>, <<3134, 3136>>,
    <<3142, 3144>>, <<3146, 3149>>, <<3157, 3158>>, <<3170, 3171>>,
    <<3201, 3201>>, <<3260, 3260>>, <<3263, 3263>>, <<3270, 3270>>,
    <<3276, 3277>>, <<3298, 3299>>, <<3328, 3329>>, <<3387, 3388>>,
    <<3393, 3396>>, <<3405, 3405>>, <<3426, 3427>>, <<3457, 3457>>,
    <<3530, 3530>>, <<3538, 3540>>, <<3542, 3542>>, <<3633, 3633>>,
    <<3636, 3642>>, <<3654, 3662>>, <<3761, 3761>>, <<3764, 3772>>,
    <<3782, 3782>>, <<3784, 3790>>, <<3864, 3865>>, <<3893, 3893>>,
    <<3895, 3895>>, <<3897, 3897>>, <<3953, 3966>>, <<3968, 3972>>,
    <<3974, 3975>>, <<3981, 3991>>, <<3993, 4028>>, <<4038, 4038>>,
    <<4141, 4144>>, <<4146, 4151>>, <<4153, 4154>>, <<4157, 4158>>,
    <<4184, 4185>>, <<4190, 4192>>, <<4209, 4212>>, <<4226, 4226>>,
    <<4229, 4230>>, <<4237, 4237>>, <<4253, 4253>>, <<4348, 4348>>,
    <<4957, 4959>>, <<5906, 5908>>, <<5938, 5939>>, <<5970, 5971>>,
    <<6002, 6003>>, <<6068, 6069>>, <<6071, 6077>>, <<6086, 6086>>,
    <<6089, 6099>>, <<6103, 6103>>, <<6109, 6109>>, <<6155, 6159>>,
    <<6211, 6211>>, <<6277, 6278>>, <<6313, 6313>>, <<6432, 6434>>,
    <<6439, 6440>>, <<6450, 6450>>, <<6457, 6459>>, <<6679, 6680>>,
    <<6683, 6683>>, <<6742, 6742>>, <<6744, 6750>>, <<6752, 6752>>,
    <<6754, 6754>>, <<6757, 6764>>, <<6771, 6780>>, <<6783, 6783>>,
    <<6823, 6823>>, <<6832, 6877>>, <<6880, 6891>>, <<6912, 6915>>,
    <<6964, 6964>>, <<6966, 6970>>, <<6972, 6972>>, <<6978, 6978>>,
    <<7019, 7027>>, <<7040, 7041>>, <<7074, 7077>>, <<7080, 7081>>,
    <<7083, 7085>>, <<7142, 7142>>, <<7144, 7145>>, <<7149, 7149>>,
    <<7151, 7153>>, <<7212, 7219>>, <<7222, 7223>>, <<7288, 7293>>,
    <<7376, 7378>>, <<7380, 7392>>, <<7394, 7400>>, <<7405, 7405>>,
    <<7412, 7412>>, <<7416, 7417>>, <<7468, 7530>>, <<7544, 7544>>,
    <<7579, 7679>>, <<8125, 8125>>, <<8127, 8129>>, <<8141, 8143>>,
    <<8157, 8159>>, <<8173, 8175>>, <<8189, 8190>>, <<8203, 8207>>,
    <<8216, 8217>>, <<8228, 8228>>, <<8231, 8231>>, <<8234, 8238>>,
    <<8288, 8292>>, <<8294, 8303>>, <<8305, 8305>>, <<8319, 8319>>,
    <<8336, 8348>>, <<8400, 8432>>, <<11388, 11389>>, <<11503, 11505>>,
    <<11631, 11631>>, <<11647, 11647>>, <<11744, 11775>>, <<11823, 11823>>,
    <<12293, 12293>>, <<12330, 12333>>, <<12337, 12341>>, <<12347, 12347>>,
    <<12441, 12446>>, <<12540, 12542>>, <<40981, 40981>>, <<42232, 42237>>,
    <<42508, 42508>>, <<42607, 42610>>, <<42612, 42621>>, <<42623, 42623>>,
    <<42652, 42655>>, <<42736, 42737>>, <<42752, 42785>>, <<42864, 42864>>,
    <<42888, 42890>>, <<42993, 42996>>, <<43000, 43001>>, <<43010, 43010>>,
    <<43014, 43014>>, <<43019, 43019>>, <<43045, 43046>>, <<43052, 43052>>,
    <<43204, 43205>>, <<43232, 43249>>, <<43263, 43263>>, <<43302, 43309>>,
    <<43335, 43345>>, <<43392, 43394>>, <<43443, 43443>>, <<43446, 43449>>,
    <<43452, 43453>>, <<43471, 43471>>, <<43493, 43494>>, <<43561, 43566>>,
    <<43569, 43570>>, <<43573, 43574>>, <<43587, 43587>>, <<43596, 43596>>,
    <<43632, 43632>>, <<43644, 43644>>, <<43696, 43696>>, <<43698, 43700>>,
    <<43703, 43704>>, <<43710, 43711>>, <<43713, 43713>>, <<43741, 43741>>,
    <<43756, 43757>>, <<43763, 43764>>, <<43766, 43766>>, <<43867, 43871>>,
    <<43881, 43883>>, <<44005, 44005>>, <<44008, 44008>>, <<44013, 44013>>,
    <<64286, 64286>>, <<64434, 64450>>, <<65024, 65039>>, <<65043, 65043>>,
    <<65056, 65071>>, <<65106, 65106>>, <<65109, 65109>>, <<65279, 65279>>,
    <<65287, 65287>>, <<65294, 65294>>, <<65306, 65306>>, <<65342, 65342>>,
    <<65344, 65344>>, <<65392, 65392>>, <<65438, 65439>>, <<65507, 65507>>,
    <<65529, 65531>>, <<66045, 66045>>, <<66272, 66272>>, <<66422, 66426>>,
    <<67456, 67461>>, <<67463, 67504>>, <<67506, 67514>>, <<68097, 68099>>,
    <<68101, 68102>>, <<68108, 68111>>, <<68152, 68154>>, <<68159, 68159>>,
    <<68325, 68326>>, <<68900, 68903>>, <<68942, 68942>>, <<68969, 68973>>,
    <<68975, 68975>>, <<69291, 69292>>, <<69317, 69317>>, <<69370, 69375>>,
    <<69446, 69456>>, <<69506, 69509>>, <<69633, 69633>>, <<69688, 69702>>,
    <<69744, 69744>>, <<69747, 69748>>, <<69759, 69761>>, <<69811, 69814>>,
    <<69817, 69818>>, <<69821, 69821>>, <<69826, 69826>>, <<69837, 69837>>,
    <<69888, 69890>>, <<69927, 69931>>, <<69933, 69940>>, <<70003, 70003>>,
    <<70016, 70017>>, <<70070, 70078>>, <<70089, 70092>>, <<70095, 70095>>,
    <<70191, 70193>>, <<70196, 70196>>, <<70198, 70199>>, <<70206, 70206>>,
    <<70209, 70209>>, <<70367, 70367>>, <<70371, 70378>>, <<70400, 70401>>,
    <<70459, 70460>>, <<70464, 70464>>, <<70502, 70508>>, <<70512, 70516>>,
    <<70587, 70592>>, <<70606, 70606>>, <<70608, 70608>>, <<70610, 70610>>,
    <<70625, 70626>>, <<70712, 70719>>, <<70722, 70724>>, <<70726, 70726>>,
    <<70750, 70750>>, <<70835, 70840>>, <<70842, 70842>>, <<70847, 70848>>,
    <<70850, 70851>>, <<71090, 71093>>, <<71100, 71101>>, <<71103, 71104>>,
    <<71132, 71133>>, <<71219, 71226>>, <<71229, 71229>>, <<71231, 71232>>,
    <<71339, 71339>>, <<71341, 71341>>, <<71344, 71349>>, <<71351, 71351>>,
    <<71453, 71453>>, <<71455, 71455>>, <<71458, 71461>>, <<71463, 71467>>,
    <<71727, 71735>>, <<71737, 71738>>, <<71995, 71996>>, <<71998, 71998>>,
    <<72003, 72003>>, <<72148, 72151>>, <<72154, 72155>>, <<72160, 72160>>,
    <<72193, 72202>>, <<72243, 72248>>, <<72251, 72254>>, <<72263, 72263>>,
    <<72273, 72278>>, <<72281, 72283>>, <<72330, 72342>>, <<72344, 72345>>,
    <<72544, 72544>>, <<72546, 72548>>, <<72550, 72550>>, <<72752, 72758>>,
    <<72760, 72765>>, <<72767, 72767>>, <<72850, 72871>>, <<72874, 72880>>,
    <<72882, 72883>>, <<72885, 72886>>, <<73009, 73014>>, <<73018, 73018>>,
    <<73020, 73021>>, <<73023, 73029>>, <<73031, 73031>>, <<73104, 73105>>,
    <<73109, 73109>>, <<73111, 73111>>, <<73177, 73177>>, <<73459, 73460>>,
    <<73472, 73473>>, <<73526, 73530>>, <<73536, 73536>>, <<73538, 73538>>,
    <<73562, 73562>>, <<78896, 78912>>, <<78919, 78933>>, <<90398, 90409>>,
    <<90413, 90415>>, <<92912, 92916>>, <<92976, 92982>>, <<92992, 92995>>,
    <<93504, 93506>>, <<93547, 93548>>, <<94031, 94031>>, <<94095, 94111>>,
    <<94176, 94177>>, <<94179, 94180>>, <<94194, 94195>>, <<110576, 110579>>,
    <<110581, 110587>>, <<110589, 110590>>, <<113821, 113822>>,
    <<113824, 113827>>, <<118528, 118573>>, <<118576, 118598>>,
    <<119143, 119145>>, <<119155, 119170>>, <<119173, 119179>>,
    <<119210, 119213>>, <<119362, 119364>>, <<121344, 121398>>,
    <<121403, 121452>>, <<121461, 121461>>, <<121476, 121476>>,
    <<121499, 121503>>, <<121505, 121519>>, <<122880, 122886>>,
    <<122888, 122904>>, <<122907, 122913>>, <<122915, 122916>>,
    <<122918, 122922>>, <<122928, 122989>>, <<123023, 123023>>,
    <<123184, 123197>>, <<123566, 123566>>, <<123628, 123631>>,
    <<124139, 124143>>, <<124398, 124399>>, <<124643, 124643>>,
    <<124646, 124646>>, <<124654, 124655>>, <<124661, 124661>>,
    <<124671, 124671>>, <<125136, 125142>>, <<125252, 125259>>,
    <<127995, 127999>>, <<917505, 917505>>, <<917536, 917631>>,
    <<917760, 917999>>
    >>

\* the code points with the property Cased and without Case_Ignorable
\* (DerivedCoreProperties.txt, version 17.0), as <<first, last>>
Cased ==
    <<
    <<65, 90>>, <<97, 122>>, <<170, 170>>, <<181, 181>>, <<186, 186>>,
    <<192, 214>>, <<216, 246>>, <<248, 442>>, <<444, 447>>, <<452, 659>>,
    <<662, 687>>, <<880, 883>>, <<886, 887>>, <<891, 893>>, <<895, 895>>,
    <<902, 902>>, <<904, 906>>, <<908, 908>>, <<910, 929>>, <<931, 1013>>,
    <<1015, 1153>>, <<1162, 1327>>, <<1329, 1366>>, <<1376, 1416>>,
    <<4256, 4293>>, <<4295, 4295>>, <<4301, 4301>>, <<4304, 4346>>,
    <<4349, 4351>>, <<5024, 5109>>, <<5112, 5117>>, <<7296, 7306>>,
    <<7312, 7354>>, <<7357, 7359>>, <<7424, 7467>>, <<7531, 7543>>,
    <<7545, 7578>>, <<7680, 7957>>, <<7960, 7965>>, <<7968, 8005>>,
    <<8008, 8013>>, <<8016, 8023>>, <<8025, 8025>>, <<8027, 8027>>,
    <<8029, 8029>>, <<8031, 8061>>, <<8064, 8116>>, <<8118, 8124>>,
    <<8126, 8126>>, <<8130, 8132>>, <<8134, 8140>>, <<8144, 8147>>,
    <<8150, 8155>>, <<8160, 8172>>, <<8178, 8180>>, <<8182, 8188>>,
    <<8450, 8450>>, <<8455, 8455>>, <<8458, 8467>>, <<8469, 8469>>,
    <<8473, 8477>>, <<8484, 8484>>, <<8486, 8486>>, <<8488, 8488>>,
    <<8490, 8493>>, <<8495, 8500>>, <<8505, 8505>>, <<8508, 8511>>,
    <<8517, 8521>>, <<8526, 8526>>, <<8544, 8575>>, <<8579, 8580>>,
    <<9398, 9449>>, <<11264, 11387>>, <<11390, 11492>>, <<11499, 11502>>,
    <<11506, 11507>>, <<11520, 11557>>, <<11559, 11559>>, <<11565, 11565>>,
    <<42560, 42605>>, <<42624, 42651>>, <<42786, 42863>>, <<42865, 42887>>,
    <<42891, 42894>>, <<42896, 42972>>, <<42997, 42998>>, <<43002, 43002>>,
    <<43824, 43866>>, <<43872, 43880>>, <<43888, 43967>>, <<64256, 64262>>,
    <<64275, 64279>>, <<65313, 65338>>, <<65345, 65370>>, <<66560, 66639>>,
    <<66736, 66771>>, <<66776, 66811>>, <<66928, 66938>>, <<66940, 66954>>,
    <<66956, 66962>>, <<66964, 66965>>, <<66967, 66977>>, <<66979, 66993>>,
    <<66995, 67001>>, <<67003, 67004>>, <<68736, 68786>>, <<68800, 68850>>,
    <<68944, 68965>>, <<68976, 68997>>, <<71840, 71903>>, <<93760, 93823>>,
    <<93856, 93880>>, <<93883, 93907>>, <<119808, 119892>>,
    <<119894, 119964>>, <<119966, 119967>>, <<119970, 119970>>,
    <<119973, 119974>>, <<119977, 119980>>, <<119982, 119993>>,
    <<119995, 119995>>, <<119997, 120003>>, <<120005, 120069>>,
    <<120071, 120074>>, <<120077, 120084>>, <<120086, 120092>>,
    <<120094, 120121>>, <<120123, 120126>>, <<120128, 120132>>,
    <<120134, 120134>>, <<120138, 120144>>, <<120146, 120485>>,
    <<120488, 120512>>, <<120514, 120538>>, <<120540, 120570>>,
    <<120572, 120596>>, <<120598, 120628>>, <<120630, 120654>>,
    <<120656, 120686>>, <<120688, 120712>>, <<120714, 120744>>,
    <<120746, 120770>>, <<120772, 120779>>, <<122624, 122633>>,
    <<122635, 122654>>, <<122661, 122666>>, <<125184, 125251>>,
    <<127280, 127305>>, <<127312, 127337>>, <<127344, 127369>>
    >>

InRanges(c, ranges) ==
    \E i \in DOMAIN ranges : ranges[i][1] <= c /\ c <= ranges[i][2]

\* for each block of 256 code points, the entries of LowerMappings that
\* concern it
LowerIndex ==
    [b \in 0..4351 |->
         {i \in DOMAIN LowerMappings :
              /\ LowerMappings[i][1] <= 256 * b + 255
              /\ 256 * b <= LowerMappings[i][2]}]

\* the simple lower-case mapping of the code point c
LowerOf(c) ==
    LET hits == {i \in LowerIndex[c \div 256] :
                    /\ LowerMappings[i][1] <= c
                    /\ c <= LowerMappings[i][2]
                    /\ (c - LowerMappings[i][1]) % LowerMappings[i][3] = 0}
    IN  IF hits = {} THEN c
        ELSE c + LowerMappings[CHOOSE i \in hits : TRUE][4]

\* the code points of a string: a high surrogate followed by a low surrogate
\* is one code point, any other code unit is a code point of its own
RECURSIVE CodePoints(_)
CodePoints(s) ==
    IF s = <<>> THEN <<>>
    ELSE IF Len(s) >= 2 /\ s[1] \in 55296..56319 /\ s[2] \in 56320..57343
    THEN <<65536 + (s[1] - 55296) * 1024 + (s[2] - 56320)>>
             \o CodePoints(SubSeq(s, 3, Len(s)))
    ELSE <<s[1]>> \o CodePoints(Tail(s))

\* SpecialCasing.txt, Final_Sigma: the nearest code point before position i
\* that is not case-ignorable is cased, and the nearest one after it that is
\* not case-ignorable, if any, is not cased
IsFinalSigma(points, i) ==
    LET before == {j \in 1..(i - 1) : ~InRanges(points[j], CaseIgnorable)}
        after == {j \in (i + 1)..Len(points) :
                     ~InRanges(points[j], CaseIgnorable)}
    IN  /\ before # {}
        /\ InRanges(points[CHOOSE j \in before : \A k \in before : k <= j],
                    Cased)
        /\ \/ after = {}
           \/ ~InRanges(points[CHOOSE j \in after : \A k \in after : j <= k],
                        Cased)

\* the code units that the code point at position i becomes: capital sigma
\* (931) becomes final sigma (962) or sigma (963), capital I with dot above
\* (304) becomes i and a combining dot above, any other code point its simple
\* lower-case mapping, as one code unit or as a surrogate pair
LowerAt(points, i) ==
    IF points[i] = 931
    THEN IF IsFinalSigma(points, i) THEN <<962>> ELSE <<963>>
    ELSE IF points[i] = 304 THEN <<105, 775>>
    ELSE LET c == LowerOf(points[i])
         IN  IF c >= 65536
             THEN <<55296 + ((c - 65536) \div 1024),
                    56320 + ((c - 65536) % 1024)>>
             ELSE <<c>>

RECURSIVE LowerFrom(_, _)
LowerFrom(points, i) ==
    IF i > Len(points) THEN <<>>
    ELSE LowerAt(points, i) \o LowerFrom(points, i + 1)

toLowerCase(s) == LowerFrom(CodePoints(s), 1)

RECURSIVE trimStart(_)
trimStart(s) ==
    IF s # <<>> /\ Head(s) \in WhiteSpace THEN trimStart(Tail(s)) ELSE s

RECURSIVE trimEnd(_)
trimEnd(s) ==
    IF s # <<>> /\ s[Len(s)] \in WhiteSpace
    THEN trimEnd(SubSeq(s, 1, Len(s) - 1))
    ELSE s

trim(s) == trimEnd(trimStart(s))

\* all strings over Chars of length at most n
RECURSIVE StringsUpTo(_)
StringsUpTo(n) ==
    IF n = 0 THEN {<<>>}
    ELSE LET shorter == StringsUpTo(n - 1)
         IN  shorter \cup {Append(s, c) : s \in shorter, c \in Chars}

(***************************************************************************)
(* Table helpers.                                                          *)
(***************************************************************************)
\* db.select().from(table).where(P) returns the rows that satisfy the WHERE
\* clause in an order the database chooses (no handler has an ORDER BY).  A
\* handler that looks only at the number of rows, or selects by primary key,
\* reads SelectSeq(table, P); a handler whose outcome depends on the order
\* reads any of Orders(SelectSeq(table, P)).

\* the orders in which the database may return the rows
Orders(rows) ==
    LET n == Len(rows)
        perms == {f \in [1..n -> 1..n] : \A i, j \in 1..n : f[i] = f[j] => i = j}
    IN  {[i \in 1..n |-> rows[f[i]]] : f \in perms}

\* serial('id'): the id an INSERT into the table draws from its sequence
NextId(table) == serial[table] + 1

\* the INSERT has drawn the id: the sequence keeps it whether or not the row
\* is accepted
nextval(table) == serial' = [serial EXCEPT ![table] = @ + 1]

Range(s) == {s[i] : i \in 1..Len(s)}

NoInput == [op |-> "none"]
NoLocal == [none |-> TRUE]
NoResult == [op |-> "none", input |-> NoInput, error |-> <<>>, value |-> Null]

\* a handler returns `value`
Return(p, value) ==
    /\ pc' = [pc EXCEPT ![p] = "idle"]
    /\ result' = [result EXCEPT ![p] = [op |-> input[p].op, input |-> input[p],
                                         error |-> <<>>,
                                         value |-> Some(value)]]
    /\ input' = [input EXCEPT ![p] = NoInput]
    /\ local' = [local EXCEPT ![p] = NoLocal]
    /\ wrote' = [wrote EXCEPT ![p] = FALSE]

\* a handler throws `error` (caught, logged and rethrown to the caller)
Throw(p, error) ==
    /\ pc' = [pc EXCEPT ![p] = "idle"]
    /\ result' = [result EXCEPT ![p] = [op |-> input[p].op, input |-> input[p],
                                         error |-> error, value |-> Null]]
    /\ input' = [input EXCEPT ![p] = NoInput]
    /\ local' = [local EXCEPT ![p] = NoLocal]
    /\ wrote' = [wrote EXCEPT ![p] = FALSE]

\* a request arrives at an idle process: the handler starts at `label`; the
\* outcome of the process's previous call is no longer looked at
Call(p, label, in) ==
    /\ pc[p] = "idle"
    /\ pc' = [pc EXCEPT ![p] = label]
    /\ input' = [input EXCEPT ![p] = in]
    /\ result' = [result EXCEPT ![p] = NoResult]
    /\ wrote' = [wrote EXCEPT ![p] = FALSE]
    /\ UNCHANGED local

\* the handler goes on to its next round trip
Goto(p, label, locals) ==
    /\ pc' = [pc EXCEPT ![p] = label]
    /\ local' = [local EXCEPT ![p] = locals]
    /\ wrote' = [wrote EXCEPT ![p] = wrote[p] \/ store' # store]
    /\ UNCHANGED <<input, result>>

(***************************************************************************)
(* createTestAttempt                                                       *)
(***************************************************************************)
\* a request arrives
createTestAttempt(p, test_id, student_id) ==
    /\ Call(p, "createTestAttempt_test",
            [op |-> "createTestAttempt", test_id |-> test_id,
             student_id |-> student_id])
    /\ UNCHANGED <<now, serial, catalog, enrollmentsTable, testAttemptsTable,
                   lessonProgressTable>>

\* Verify test exists
createTestAttempt_test(p) ==
    /\ pc[p] = "createTestAttempt_test"
    /\ UNCHANGED <<now, serial, catalog, enrollmentsTable, testAttemptsTable,
                   lessonProgressTable>>
    /\ LET testExists == SelectSeq(testsTable, LAMBDA t : t.id = input[p].test_id)
       IN  IF Len(testExists) = 0
           THEN Throw(p, <<"Test not found", input[p].test_id>>)
           ELSE Goto(p, "createTestAttempt_student", [test |-> testExists[1]])

\* createTestAttempt_student without the role condition
createTestAttempt_student_anyRole(p) ==
    /\ pc[p] = "createTestAttempt_student"
    /\ UNCHANGED <<now, serial, catalog, enrollmentsTable, testAttemptsTable,
                   lessonProgressTable>>
    /\ LET studentExists ==
               SelectSeq(usersTable, LAMBDA u : u.id = input[p].student_id)
       IN  IF Len(studentExists) = 0
           THEN Throw(p, <<"Student not found", input[p].student_id>>)
           ELSE Goto(p, "createTestAttempt_count", local[p])

\* Verify student exists
createTestAttempt_student(p) ==
    /\ pc[p] = "createTestAttempt_student"
    /\ UNCHANGED <<now, serial, catalog, enrollmentsTable, testAttemptsTable,
                   lessonProgressTable>>
    /\ LET studentExists ==
               SelectSeq(usersTable, LAMBDA u : /\ u.id = input[p].student_id
                                            /\ u.role = "student")
       IN  IF Len(studentExists) = 0
           THEN Throw(p, <<"Student not found", input[p].student_id>>)
           ELSE Goto(p, "createTestAttempt_count", local[p])

\* createTestAttempt_count with the limit test off by one (> for >=)
createTestAttempt_count_offByOne(p) ==
    /\ pc[p] = "createTestAttempt_count"
    /\ UNCHANGED <<now, serial, catalog, enrollmentsTable, testAttemptsTable,
                   lessonProgressTable>>
    /\ LET existingAttempts ==
               SelectSeq(testAttemptsTable,
                     LAMBDA a : /\ a.test_id = input[p].test_id
                                /\ a.student_id = input[p].student_id)
           attemptCount == Len(existingAttempts)
       IN  IF attemptCount > local[p].test.max_attempts
           THEN Throw(p, <<"Maximum attempts exceeded",
                           local[p].test.max_attempts>>)
           ELSE Goto(p, "createTestAttempt_insert", local[p])

\* Check if student has exceeded max attempts
createTestAttempt_count(p) ==
    /\ pc[p] = "createTestAttempt_count"
    /\ UNCHANGED <<now, serial, catalog, enrollmentsTable, testAttemptsTable,
                   lessonProgressTable>>
    /\ LET existingAttempts ==
               SelectSeq(testAttemptsTable,
                     LAMBDA a : /\ a.test_id = input[p].test_id
                                /\ a.student_id = input[p].student_id)
           attemptCount == Len(existingAttempts)
       IN  IF attemptCount >= local[p].test.max_attempts
           THEN Throw(p, <<"Maximum attempts exceeded",
                        local[p].test.max_attempts>>)
           ELSE Goto(p, "createTestAttempt_insert", local[p])

\* createTestAttempt_insert that stores is_passed = false for null
createTestAttempt_insert_notPassed(p) ==
    /\ pc[p] = "createTestAttempt_insert"
    /\ nextval("test_attempts")
    /\ UNCHANGED <<now, catalog, enrollmentsTable, lessonProgressTable>>
    /\ LET testAttempt == [id |-> NextId("test_attempts"),
                           test_id |-> input[p].test_id,
                           student_id |-> input[p].student_id,
                           score |-> Null,
                           answers |-> <<>>,
                           started_at |-> now,
                           completed_at |-> Null,
                           is_passed |-> Some(FALSE)]
       IN  /\ testAttemptsTable' = Append(testAttemptsTable, testAttempt)
           /\ Return(p, testAttempt)

\* Create new test attempt
createTestAttempt_insert(p) ==
    /\ pc[p] = "createTestAttempt_insert"
    /\ nextval("test_attempts")
    /\ UNCHANGED <<now, catalog, enrollmentsTable, lessonProgressTable>>
    /\ LET testAttempt == [id |-> NextId("test_attempts"),
                           test_id |-> input[p].test_id,
                           student_id |-> input[p].student_id,
                           score |-> Null,
                           answers |-> <<>>,
                           started_at |-> now,
                           completed_at |-> Null,
                           is_passed |-> Null]
       IN  /\ testAttemptsTable' = Append(testAttemptsTable, testAttempt)
           /\ Return(p, testAttempt)

\* the data store rejects the round trip the call has reached (the
\* connection is lost, the statement times out): execute() throws before the
\* statement has changed anything, and the catch block logs the error and
\* rethrows it
createTestAttempt_fails(p) ==
    /\ pc[p] \in {"createTestAttempt_test", "createTestAttempt_student",
                  "createTestAttempt_count", "createTestAttempt_insert"}
    /\ UNCHANGED <<now, serial, catalog, enrollmentsTable, testAttemptsTable,
                   lessonProgressTable>>
    /\ Throw(p, <<"data store failure">>)

(***************************************************************************)
(* submitTestAttempt                                                       *)
(***************************************************************************)
\* input.answers[key]: Null when the key is absent (undefined)
Lookup(answers, key) ==
    IF key \in DOMAIN answers THEN Some(answers[key]) ELSE Null

\* JavaScript truthiness of a string-or-undefined: undefined and "" are falsy
Truthy(x) == ~IsNull(x) /\ Val(x) # <<>>

\* isCorrect taking a question without an answer for a correct one
isCorrect_absentIsCorrect(question, answers) ==
    LET studentAnswer == Lookup(answers, ToString(question.id))
    IN  \/ IsNull(studentAnswer)
        \/ /\ Truthy(studentAnswer)
           /\ toLowerCase(trim(Val(studentAnswer)))
                = toLowerCase(trim(question.correct_answer))

\* the condition under which a question earns its points
isCorrect(question, answers) ==
    LET studentAnswer == Lookup(answers, ToString(question.id))
    IN  /\ Truthy(studentAnswer)
        /\ toLowerCase(trim(Val(studentAnswer)))
             = toLowerCase(trim(question.correct_answer))

\* questions.forEach(...): the running totals after the first n questions
RECURSIVE tally(_, _, _)
tally(questions, answers, n) ==
    IF n = 0 THEN [totalPoints |-> 0, earnedPoints |-> 0]
    ELSE LET acc == tally(questions, answers, n - 1)
             question == questions[n]
         IN  [totalPoints |-> acc.totalPoints + question.points,
              earnedPoints |->
                  IF isCorrect(question, answers)
                  THEN acc.earnedPoints + question.points
                  ELSE acc.earnedPoints]

\* score = totalPoints > 0 ? (earnedPoints / totalPoints) * 100 : 0
scoreOf(questions, answers) ==
    LET t == tally(questions, answers, Len(questions))
    IN  IF t.totalPoints > 0
        THEN Times(Divide(t.earnedPoints, t.totalPoints), 100)
        ELSE Zero

\* isPassedOf with > in place of >=
isPassedOf_strict(score, passingScore) == ~Geq(DoubleOf(passingScore), score)

\* isPassed = score >= passingScore
isPassedOf(score, passingScore) == Geq(score, DoubleOf(passingScore))

\* a request arrives
submitTestAttempt(p, attempt_id, answers) ==
    /\ Call(p, "submitTestAttempt_attempt",
            [op |-> "submitTestAttempt", attempt_id |-> attempt_id,
             answers |-> answers])
    /\ UNCHANGED <<now, serial, catalog, enrollmentsTable, testAttemptsTable,
                   lessonProgressTable>>

\* submitTestAttempt_attempt without the completed_at check
submitTestAttempt_attempt_noCompletedCheck(p) ==
    /\ pc[p] = "submitTestAttempt_attempt"
    /\ UNCHANGED <<now, serial, catalog, enrollmentsTable, testAttemptsTable,
                   lessonProgressTable>>
    /\ LET existingAttempts ==
               SelectSeq(testAttemptsTable, LAMBDA a : a.id = input[p].attempt_id)
       IN  IF Len(existingAttempts) = 0
           THEN Throw(p, <<"Test attempt not found">>)
           ELSE Goto(p, "submitTestAttempt_test",
                     [attempt |-> existingAttempts[1]])

\* submitTestAttempt_attempt that reports an unknown attempt as submitted
submitTestAttempt_attempt_unknownAsSubmitted(p) ==
    /\ pc[p] = "submitTestAttempt_attempt"
    /\ UNCHANGED <<now, serial, catalog, enrollmentsTable, testAttemptsTable,
                   lessonProgressTable>>
    /\ LET existingAttempts ==
               SelectSeq(testAttemptsTable, LAMBDA a : a.id = input[p].attempt_id)
       IN  IF \/ Len(existingAttempts) = 0
              \/ ~IsNull(existingAttempts[1].completed_at)
           THEN Throw(p, <<"Test attempt has already been submitted">>)
           ELSE Goto(p, "submitTestAttempt_test",
                     [attempt |-> existingAttempts[1]])

\* verify the test attempt exists and is not already completed
submitTestAttempt_attempt(p) ==
    /\ pc[p] = "submitTestAttempt_attempt"
    /\ UNCHANGED <<now, serial, catalog, enrollmentsTable, testAttemptsTable,
                   lessonProgressTable>>
    /\ LET existingAttempts ==
               SelectSeq(testAttemptsTable, LAMBDA a : a.id = input[p].attempt_id)
       IN  IF Len(existingAttempts) = 0
           THEN Throw(p, <<"Test attempt not found">>)
           ELSE IF ~IsNull(existingAttempts[1].completed_at)
           THEN Throw(p, <<"Test attempt has already been submitted">>)
           ELSE Goto(p, "submitTestAttempt_test",
                     [attempt |-> existingAttempts[1]])

\* Get test details
submitTestAttempt_test(p) ==
    /\ pc[p] = "submitTestAttempt_test"
    /\ UNCHANGED <<now, serial, catalog, enrollmentsTable, testAttemptsTable,
                   lessonProgressTable>>
    /\ LET testDetails ==
               SelectSeq(testsTable, LAMBDA t : t.id = local[p].attempt.test_id)
       IN  IF Len(testDetails) = 0
           THEN Throw(p, <<"Test not found">>)
           ELSE Goto(p, "submitTestAttempt_questions",
                     [attempt |-> local[p].attempt, test |-> testDetails[1]])

\* submitTestAttempt_questions that grades a test without questions
submitTestAttempt_questions_gradesEmpty(p) ==
    /\ pc[p] = "submitTestAttempt_questions"
    /\ UNCHANGED <<now, serial, catalog, enrollmentsTable, testAttemptsTable,
                   lessonProgressTable>>
    /\ LET questions ==
               SelectSeq(questionsTable,
                     LAMBDA q : q.test_id = local[p].attempt.test_id)
           score == scoreOf(questions, input[p].answers)
           isPassed == isPassedOf(score, local[p].test.passing_score)
       IN  Goto(p, "submitTestAttempt_update",
                [score |-> score, isPassed |-> isPassed])

\* Get all questions for this test and calculate the score
submitTestAttempt_questions(p) ==
    /\ pc[p] = "submitTestAttempt_questions"
    /\ UNCHANGED <<now, serial, catalog, enrollmentsTable, testAttemptsTable,
                   lessonProgressTable>>
    /\ LET questions ==
               SelectSeq(questionsTable,
                     LAMBDA q : q.test_id = local[p].attempt.test_id)
           score == scoreOf(questions, input[p].answers)
           isPassed == isPassedOf(score, local[p].test.passing_score)
       IN  IF Len(questions) = 0
           THEN Throw(p, <<"No questions found for test">>)
           ELSE Goto(p, "submitTestAttempt_update",
                     [score |-> score, isPassed |-> isPassed])

\* submitTestAttempt_update that stores a failed verdict as null
submitTestAttempt_update_falsyVerdict(p) ==
    /\ pc[p] = "submitTestAttempt_update"
    /\ UNCHANGED <<now, serial, catalog, enrollmentsTable, lessonProgressTable>>
    /\ LET updated(a) == [a EXCEPT !.answers = input[p].answers,
                                   !.score = Some(ToReal(local[p].score)),
                                   !.completed_at = Some(now),
                                   !.is_passed = IF local[p].isPassed
                                                 THEN Some(TRUE) ELSE Null]
           updatedAttempts ==
               SelectSeq([i \in DOMAIN testAttemptsTable |->
                          IF testAttemptsTable[i].id = input[p].attempt_id
                          THEN updated(testAttemptsTable[i])
                          ELSE testAttemptsTable[i]],
                     LAMBDA a : a.id = input[p].attempt_id)
       IN  /\ testAttemptsTable' =
                  [i \in DOMAIN testAttemptsTable |->
                       IF testAttemptsTable[i].id = input[p].attempt_id
                       THEN updated(testAttemptsTable[i])
                       ELSE testAttemptsTable[i]]
           /\ Return(p, updatedAttempts[1])

\* submitTestAttempt_update that stores the answers trimmed and lower-cased
submitTestAttempt_update_storesNormalized(p) ==
    /\ pc[p] = "submitTestAttempt_update"
    /\ UNCHANGED <<now, serial, catalog, enrollmentsTable, lessonProgressTable>>
    /\ LET updated(a) == [a EXCEPT !.answers =
                                       [k \in DOMAIN input[p].answers |->
                                            toLowerCase(trim(input[p].answers[k]))],
                                   !.score = Some(ToReal(local[p].score)),
                                   !.completed_at = Some(now),
                                   !.is_passed = Some(local[p].isPassed)]
           updatedAttempts ==
               SelectSeq([i \in DOMAIN testAttemptsTable |->
                          IF testAttemptsTable[i].id = input[p].attempt_id
                          THEN updated(testAttemptsTable[i])
                          ELSE testAttemptsTable[i]],
                     LAMBDA a : a.id = input[p].attempt_id)
       IN  /\ testAttemptsTable' =
                  [i \in DOMAIN testAttemptsTable |->
                       IF testAttemptsTable[i].id = input[p].attempt_id
                       THEN updated(testAttemptsTable[i])
                       ELSE testAttemptsTable[i]]
           /\ Return(p, updatedAttempts[1])

\* Update the test attempt with results
submitTestAttempt_update(p) ==
    /\ pc[p] = "submitTestAttempt_update"
    /\ UNCHANGED <<now, serial, catalog, enrollmentsTable, lessonProgressTable>>
    /\ LET updated(a) == [a EXCEPT !.answers = input[p].answers,
                                   !.score = Some(ToReal(local[p].score)),
                                   !.completed_at = Some(now),
                                   !.is_passed = Some(local[p].isPassed)]
           updatedAttempts ==
               SelectSeq([i \in DOMAIN testAttemptsTable |->
                          IF testAttemptsTable[i].id = input[p].attempt_id
                          THEN updated(testAttemptsTable[i])
                          ELSE testAttemptsTable[i]],
                     LAMBDA a : a.id = input[p].attempt_id)
       IN  /\ testAttemptsTable' =
                  [i \in DOMAIN testAttemptsTable |->
                       IF testAttemptsTable[i].id = input[p].attempt_id
                       THEN updated(testAttemptsTable[i])
                       ELSE testAttemptsTable[i]]
           /\ Return(p, updatedAttempts[1])

\* the data store rejects the round trip the call has reached: execute()
\* throws before the statement has changed anything, and the catch block
\* logs the error and rethrows it
submitTestAttempt_fails(p) ==
    /\ pc[p] \in {"submitTestAttempt_attempt", "submitTestAttempt_test",
                  "submitTestAttempt_questions", "submitTestAttempt_update"}
    /\ UNCHANGED <<now, serial, catalog, enrollmentsTable, testAttemptsTable,
                   lessonProgressTable>>
    /\ Throw(p, <<"data store failure">>)

(***************************************************************************)
(* createEnrollment                                                        *)
(***************************************************************************)
\* a request arrives
createEnrollment(p, student_id, course_id) ==
    /\ Call(p, "createEnrollment_student",
            [op |-> "createEnrollment", student_id |-> student_id,
             course_id |-> course_id])
    /\ UNCHANGED <<now, serial, catalog, enrollmentsTable, testAttemptsTable,
                   lessonProgressTable>>

\* Validate that the student exists and has student role
createEnrollment_student(p) ==
    /\ pc[p] = "createEnrollment_student"
    /\ UNCHANGED <<now, serial, catalog, enrollmentsTable, testAttemptsTable,
                   lessonProgressTable>>
    /\ LET student == SelectSeq(usersTable, LAMBDA u : u.id = input[p].student_id)
       IN  IF Len(student) = 0
           THEN Throw(p, <<"Student not found">>)
           ELSE IF student[1].role # "student"
           THEN Throw(p, <<"User is not a student">>)
           ELSE Goto(p, "createEnrollment_course", local[p])

\* Validate that the course exists
createEnrollment_course(p) ==
    /\ pc[p] = "createEnrollment_course"
    /\ UNCHANGED <<now, serial, catalog, enrollmentsTable, testAttemptsTable,
                   lessonProgressTable>>
    /\ LET course == SelectSeq(coursesTable, LAMBDA c : c.id = input[p].course_id)
       IN  IF Len(course) = 0
           THEN Throw(p, <<"Course not found">>)
           ELSE Goto(p, "createEnrollment_existing", local[p])

\* createEnrollment_existing that looks for active enrollments only
createEnrollment_existing_activeOnly(p) ==
    /\ pc[p] = "createEnrollment_existing"
    /\ UNCHANGED <<now, serial, catalog, enrollmentsTable, testAttemptsTable,
                   lessonProgressTable>>
    /\ LET existingEnrollment ==
               SelectSeq(enrollmentsTable,
                     LAMBDA e : /\ e.student_id = input[p].student_id
                                /\ e.course_id = input[p].course_id
                                /\ e.status = "active")
       IN  IF Len(existingEnrollment) > 0
           THEN Throw(p, <<"Student is already enrolled in this course">>)
           ELSE Goto(p, "createEnrollment_insert", local[p])

\* Check if student is already enrolled in this course
createEnrollment_existing(p) ==
    /\ pc[p] = "createEnrollment_existing"
    /\ UNCHANGED <<now, serial, catalog, enrollmentsTable, testAttemptsTable,
                   lessonProgressTable>>
    /\ LET existingEnrollment ==
               SelectSeq(enrollmentsTable,
                     LAMBDA e : /\ e.student_id = input[p].student_id
                                /\ e.course_id = input[p].course_id)
       IN  IF Len(existingEnrollment) > 0
           THEN Throw(p, <<"Student is already enrolled in this course">>)
           ELSE Goto(p, "createEnrollment_insert", local[p])

\* Create the enrollment
createEnrollment_insert(p) ==
    /\ pc[p] = "createEnrollment_insert"
    /\ nextval("enrollments")
    /\ UNCHANGED <<now, catalog, testAttemptsTable, lessonProgressTable>>
    /\ LET enrollment == [id |-> NextId("enrollments"),
                          student_id |-> input[p].student_id,
                          course_id |-> input[p].course_id,
                          status |-> "active",
                          progress_percentage |-> Num(0),
                          enrolled_at |-> now,
                          completed_at |-> Null]
       IN  /\ enrollmentsTable' = Append(enrollmentsTable, enrollment)
           /\ Return(p, enrollment)

(***************************************************************************)
(* markLessonComplete and updateCourseProgress                             *)
(***************************************************************************)
\* a request arrives
markLessonComplete(p, student_id, lesson_id) ==
    /\ Call(p, "markLessonComplete_lesson",
            [op |-> "markLessonComplete", student_id |-> student_id,
             lesson_id |-> lesson_id])
    /\ UNCHANGED <<now, serial, catalog, enrollmentsTable, testAttemptsTable,
                   lessonProgressTable>>

\* Verify lesson exists
markLessonComplete_lesson(p) ==
    /\ pc[p] = "markLessonComplete_lesson"
    /\ UNCHANGED <<now, serial, catalog, enrollmentsTable, testAttemptsTable,
                   lessonProgressTable>>
    /\ LET lessonExists ==
               SelectSeq(lessonsTable, LAMBDA l : l.id = input[p].lesson_id)
       IN  IF Len(lessonExists) = 0
           THEN Throw(p, <<"Lesson not found">>)
           ELSE Goto(p, "markLessonComplete_existing", local[p])

\* Check if lesson progress already exists
markLessonComplete_existing(p) ==
    /\ pc[p] = "markLessonComplete_existing"
    /\ UNCHANGED <<now, serial, catalog, enrollmentsTable, testAttemptsTable,
                   lessonProgressTable>>
    /\ LET existingProgress ==
               SelectSeq(lessonProgressTable,
                     LAMBDA r : /\ r.student_id = input[p].student_id
                                /\ r.lesson_id = input[p].lesson_id)
       IN  Goto(p, "markLessonComplete_upsert",
                [existingProgress |-> existingProgress])

\* markLessonComplete_upsert that inserts a row whether or not one exists
markLessonComplete_upsert_alwaysInsert(p) ==
    /\ pc[p] = "markLessonComplete_upsert"
    /\ nextval("lesson_progress")
    /\ UNCHANGED <<now, catalog, enrollmentsTable, testAttemptsTable>>
    /\ LET inserted == [id |-> NextId("lesson_progress"),
                        student_id |-> input[p].student_id,
                        lesson_id |-> input[p].lesson_id,
                        is_completed |-> TRUE,
                        completed_at |-> Some(now),
                        created_at |-> now]
       IN  IF \A u \in Range(usersTable) : u.id # input[p].student_id
           THEN /\ Throw(p, <<"foreign key violation">>)
                /\ UNCHANGED lessonProgressTable
           ELSE /\ lessonProgressTable' = Append(lessonProgressTable, inserted)
                /\ Goto(p, "updateCourseProgress_lesson",
                        [lessonProgress |-> inserted])

\* Update existing progress record, or create new progress record
markLessonComplete_upsert(p) ==
    /\ pc[p] = "markLessonComplete_upsert"
    /\ UNCHANGED <<now, catalog, enrollmentsTable, testAttemptsTable>>
    /\ LET matches(r) == /\ r.student_id = input[p].student_id
                         /\ r.lesson_id = input[p].lesson_id
           updated == [i \in DOMAIN lessonProgressTable |->
                          IF matches(lessonProgressTable[i])
                          THEN [lessonProgressTable[i] EXCEPT
                                    !.is_completed = TRUE,
                                    !.completed_at = Some(now)]
                          ELSE lessonProgressTable[i]]
           updateResult == SelectSeq(updated, matches)
           inserted == [id |-> NextId("lesson_progress"),
                        student_id |-> input[p].student_id,
                        lesson_id |-> input[p].lesson_id,
                        is_completed |-> TRUE,
                        completed_at |-> Some(now),
                        created_at |-> now]
       IN  IF Len(local[p].existingProgress) > 0
           THEN /\ lessonProgressTable' = updated
                /\ UNCHANGED serial
                /\ \E returned \in Orders(updateResult) :
                       Goto(p, "updateCourseProgress_lesson",
                            [lessonProgress |-> returned[1]])
           ELSE IF \A u \in Range(usersTable) : u.id # input[p].student_id
           THEN \* student_id references users.id: the insert is rejected
                /\ nextval("lesson_progress")
                /\ Throw(p, <<"foreign key violation">>)
                /\ UNCHANGED lessonProgressTable
           ELSE /\ nextval("lesson_progress")
                /\ lessonProgressTable' = Append(lessonProgressTable, inserted)
                /\ Goto(p, "updateCourseProgress_lesson",
                        [lessonProgress |-> inserted])

\* Get the course_id for this lesson
updateCourseProgress_lesson(p) ==
    /\ pc[p] = "updateCourseProgress_lesson"
    /\ UNCHANGED <<now, serial, catalog, enrollmentsTable, testAttemptsTable,
                   lessonProgressTable>>
    /\ LET lesson == SelectSeq(lessonsTable, LAMBDA l : l.id = input[p].lesson_id)
       IN  IF Len(lesson) = 0
           THEN Throw(p, <<"Lesson not found">>)
           ELSE Goto(p, "updateCourseProgress_total",
                     [lessonProgress |-> local[p].lessonProgress,
                      courseId |-> lesson[1].course_id])

\* Count total lessons in the course
updateCourseProgress_total(p) ==
    /\ pc[p] = "updateCourseProgress_total"
    /\ UNCHANGED <<now, serial, catalog, enrollmentsTable, testAttemptsTable,
                   lessonProgressTable>>
    /\ LET totalLessonsResult ==
               SelectSeq(lessonsTable, LAMBDA l : l.course_id = local[p].courseId)
       IN  Goto(p, "updateCourseProgress_completed",
                [lessonProgress |-> local[p].lessonProgress,
                 courseId |-> local[p].courseId,
                 totalLessons |-> Len(totalLessonsResult)])

\* lesson_progress INNER JOIN lessons ON lesson_progress.lesson_id = lessons.id
RECURSIVE innerJoin(_, _)
innerJoin(progress, lessons) ==
    IF progress = <<>> THEN <<>>
    ELSE LET r == Head(progress)
             matched == SelectSeq(lessons, LAMBDA l : l.id = r.lesson_id)
         IN  [j \in 1..Len(matched) |->
                  [lesson_progress |-> r, lessons |-> matched[j]]]
             \o innerJoin(Tail(progress), lessons)

\* updateCourseProgress_completed without the student_id condition
updateCourseProgress_completed_anyStudent(p) ==
    /\ pc[p] = "updateCourseProgress_completed"
    /\ UNCHANGED <<now, serial, catalog, enrollmentsTable, testAttemptsTable,
                   lessonProgressTable>>
    /\ LET completedLessonsResult ==
               SelectSeq(innerJoin(lessonProgressTable, lessonsTable),
                     LAMBDA r :
                         /\ r.lessons.course_id = local[p].courseId
                         /\ r.lesson_progress.is_completed = TRUE)
       IN  Goto(p, "updateCourseProgress_enrollment",
                [lessonProgress |-> local[p].lessonProgress,
                 courseId |-> local[p].courseId,
                 totalLessons |-> local[p].totalLessons,
                 completedLessons |-> Len(completedLessonsResult)])

\* Count completed lessons for this student in this course
updateCourseProgress_completed(p) ==
    /\ pc[p] = "updateCourseProgress_completed"
    /\ UNCHANGED <<now, serial, catalog, enrollmentsTable, testAttemptsTable,
                   lessonProgressTable>>
    /\ LET completedLessonsResult ==
               SelectSeq(innerJoin(lessonProgressTable, lessonsTable),
                     LAMBDA r :
                         /\ r.lesson_progress.student_id = input[p].student_id
                         /\ r.lessons.course_id = local[p].courseId
                         /\ r.lesson_progress.is_completed = TRUE)
       IN  Goto(p, "updateCourseProgress_enrollment",
                [lessonProgress |-> local[p].lessonProgress,
                 courseId |-> local[p].courseId,
                 totalLessons |-> local[p].totalLessons,
                 completedLessons |-> Len(completedLessonsResult)])

\* progressPercentage = totalLessons > 0
\*                        ? (completedLessons / totalLessons) * 100 : 0
progressPercentageOf(completedLessons, totalLessons) ==
    IF totalLessons > 0
    THEN Times(Divide(completedLessons, totalLessons), 100)
    ELSE Zero

\* updateCourseProgress_enrollment without the student_id condition
updateCourseProgress_enrollment_wholeCourse(p) ==
    /\ pc[p] = "updateCourseProgress_enrollment"
    /\ UNCHANGED <<now, serial, catalog, testAttemptsTable, lessonProgressTable>>
    /\ LET progressPercentage ==
               progressPercentageOf(local[p].completedLessons,
                                    local[p].totalLessons)
           set(e) == IF progressPercentage = DoubleOf(100)
                     THEN [e EXCEPT !.progress_percentage = ToReal(progressPercentage),
                                    !.completed_at = Some(now),
                                    !.status = "completed"]
                     ELSE [e EXCEPT !.progress_percentage = ToReal(progressPercentage)]
       IN  /\ enrollmentsTable' =
                  [i \in DOMAIN enrollmentsTable |->
                       IF enrollmentsTable[i].course_id = local[p].courseId
                       THEN set(enrollmentsTable[i])
                       ELSE enrollmentsTable[i]]
           /\ Return(p, local[p].lessonProgress)

\* Update enrollment progress; markLessonComplete returns lessonProgress
updateCourseProgress_enrollment(p) ==
    /\ pc[p] = "updateCourseProgress_enrollment"
    /\ UNCHANGED <<now, serial, catalog, testAttemptsTable, lessonProgressTable>>
    /\ LET progressPercentage ==
               progressPercentageOf(local[p].completedLessons,
                                    local[p].totalLessons)
           set(e) == IF progressPercentage = DoubleOf(100)
                     THEN [e EXCEPT !.progress_percentage = ToReal(progressPercentage),
                                    !.completed_at = Some(now),
                                    !.status = "completed"]
                     ELSE [e EXCEPT !.progress_percentage = ToReal(progressPercentage)]
       IN  /\ enrollmentsTable' =
                  [i \in DOMAIN enrollmentsTable |->
                       IF /\ enrollmentsTable[i].student_id
                               = input[p].student_id
                          /\ enrollmentsTable[i].course_id = local[p].courseId
                       THEN set(enrollmentsTable[i])
                       ELSE enrollmentsTable[i]]
           /\ Return(p, local[p].lessonProgress)

\* the data store rejects the round trip the call has reached, in
\* markLessonComplete or in updateCourseProgress: execute() throws before the
\* statement has changed anything, and the catch block logs the error and
\* rethrows it. The handler opens no transaction, so what its earlier round
\* trips wrote stays written.
markLessonComplete_fails(p) ==
    /\ pc[p] \in {"markLessonComplete_lesson", "markLessonComplete_existing",
                  "markLessonComplete_upsert", "updateCourseProgress_lesson",
                  "updateCourseProgress_total",
                  "updateCourseProgress_completed",
                  "updateCourseProgress_enrollment"}
    /\ UNCHANGED <<now, serial, catalog, enrollmentsTable, testAttemptsTable,
                   lessonProgressTable>>
    /\ Throw(p, <<"data store failure">>)

(***************************************************************************)
(* createQuestion                                                          *)
(***************************************************************************)
\* a request arrives
createQuestion(p, test_id, correct_answer, points) ==
    /\ Call(p, "createQuestion_test",
            [op |-> "createQuestion", test_id |-> test_id,
             correct_answer |-> correct_answer, points |-> points])
    /\ UNCHANGED <<now, serial, catalog, enrollmentsTable, testAttemptsTable,
                   lessonProgressTable>>

\* Verify that the test exists
createQuestion_test(p) ==
    /\ pc[p] = "createQuestion_test"
    /\ UNCHANGED <<now, serial, catalog, enrollmentsTable, testAttemptsTable,
                   lessonProgressTable>>
    /\ LET test == SelectSeq(testsTable, LAMBDA t : t.id = input[p].test_id)
       IN  IF Len(test) = 0
           THEN Throw(p, <<"Test not found", input[p].test_id>>)
           ELSE Goto(p, "createQuestion_insert", local[p])

\* Insert question record
createQuestion_insert(p) ==
    /\ pc[p] = "createQuestion_insert"
    /\ nextval("questions")
    /\ UNCHANGED <<now, usersTable, testsTable, lessonsTable, coursesTable,
                   consultationSlotsTable, enrollmentsTable, testAttemptsTable,
                   lessonProgressTable>>
    /\ LET question == [id |-> NextId("questions"),
                        test_id |-> input[p].test_id,
                        correct_answer |-> input[p].correct_answer,
                        points |-> input[p].points]
       IN  /\ questionsTable' = Append(questionsTable, question)
           /\ Return(p, question)

(***************************************************************************)
(* createLesson                                                            *)
(***************************************************************************)
\* a request arrives
createLesson(p, course_id) ==
    /\ Call(p, "createLesson_course",
            [op |-> "createLesson", course_id |-> course_id])
    /\ UNCHANGED <<now, serial, catalog, enrollmentsTable, testAttemptsTable,
                   lessonProgressTable>>

\* Verify that the course exists
createLesson_course(p) ==
    /\ pc[p] = "createLesson_course"
    /\ UNCHANGED <<now, serial, catalog, enrollmentsTable, testAttemptsTable,
                   lessonProgressTable>>
    /\ LET course == SelectSeq(coursesTable, LAMBDA c : c.id = input[p].course_id)
       IN  IF Len(course) = 0
           THEN Throw(p, <<"Course not found", input[p].course_id>>)
           ELSE Goto(p, "createLesson_insert", local[p])

\* Insert the lesson record
createLesson_insert(p) ==
    /\ pc[p] = "createLesson_insert"
    /\ nextval("lessons")
    /\ UNCHANGED <<now, usersTable, testsTable, questionsTable, coursesTable,
                   consultationSlotsTable, enrollmentsTable, testAttemptsTable,
                   lessonProgressTable>>
    /\ LET lesson == [id |-> NextId("lessons"),
                      course_id |-> input[p].course_id]
       IN  /\ lessonsTable' = Append(lessonsTable, lesson)
           /\ Return(p, lesson)

(***************************************************************************)
(* getTestAttemptsByStudent, getTestAttemptById, getTestAttemptsByTest     *)
(***************************************************************************)
\* JavaScript truthiness of a number-or-null: null and 0 are falsy
TruthyNumber(x) == ~IsNull(x) /\ Val(x) # Num(0)

\* { ...attempt, score: attempt.score ? parseFloat(attempt.score.toString())
\*                                    : null, answers: attempt.answers }
toTestAttempt(attempt) ==
    [attempt EXCEPT !.score = IF TruthyNumber(attempt.score)
                              THEN Some(Val(attempt.score))
                              ELSE Null]

\* a request arrives
getTestAttemptsByStudent(p, studentId, testId) ==
    /\ Call(p, "getTestAttemptsByStudent_select",
            [op |-> "getTestAttemptsByStudent", studentId |-> studentId,
             testId |-> testId])
    /\ UNCHANGED <<now, serial, catalog, enrollmentsTable, testAttemptsTable,
                   lessonProgressTable>>

\* select the attempts of the student and test and convert them
getTestAttemptsByStudent_select(p) ==
    /\ pc[p] = "getTestAttemptsByStudent_select"
    /\ UNCHANGED <<now, serial, catalog, enrollmentsTable, testAttemptsTable,
                   lessonProgressTable>>
    /\ LET selected ==
               SelectSeq(testAttemptsTable,
                     LAMBDA a : /\ a.student_id = input[p].studentId
                                /\ a.test_id = input[p].testId)
       IN  \E results \in Orders(selected) :
               Return(p, [i \in 1..Len(results) |-> toTestAttempt(results[i])])

\* a request arrives
getTestAttemptById(p, attemptId) ==
    /\ Call(p, "getTestAttemptById_select",
            [op |-> "getTestAttemptById", attemptId |-> attemptId])
    /\ UNCHANGED <<now, serial, catalog, enrollmentsTable, testAttemptsTable,
                   lessonProgressTable>>

\* select the attempt by id; return null when there is none
getTestAttemptById_select(p) ==
    /\ pc[p] = "getTestAttemptById_select"
    /\ UNCHANGED <<now, serial, catalog, enrollmentsTable, testAttemptsTable,
                   lessonProgressTable>>
    /\ LET results ==
               SelectSeq(testAttemptsTable, LAMBDA a : a.id = input[p].attemptId)
       IN  IF Len(results) = 0
           THEN Return(p, Null)
           ELSE Return(p, Some(toTestAttempt(results[1])))

\* a request arrives
getTestAttemptsByTest(p, testId) ==
    /\ Call(p, "getTestAttemptsByTest_select",
            [op |-> "getTestAttemptsByTest", testId |-> testId])
    /\ UNCHANGED <<now, serial, catalog, enrollmentsTable, testAttemptsTable,
                   lessonProgressTable>>

\* select the attempts of the test and convert them
getTestAttemptsByTest_select(p) ==
    /\ pc[p] = "getTestAttemptsByTest_select"
    /\ UNCHANGED <<now, serial, catalog, enrollmentsTable, testAttemptsTable,
                   lessonProgressTable>>
    /\ LET selected ==
               SelectSeq(testAttemptsTable, LAMBDA a : a.test_id = input[p].testId)
       IN  \E results \in Orders(selected) :
               Return(p, [i \in 1..Len(results) |-> toTestAttempt(results[i])])

(***************************************************************************)
(* bookConsultation                                                        *)
(***************************************************************************)
\* a request arrives
bookConsultation(p, slot_id, student_id, notes) ==
    /\ Call(p, "bookConsultation_student",
            [op |-> "bookConsultation", slot_id |-> slot_id,
             student_id |-> student_id, notes |-> notes])
    /\ UNCHANGED <<now, serial, catalog, enrollmentsTable, testAttemptsTable,
                   lessonProgressTable>>

\* Verify the student exists and has student role
bookConsultation_student(p) ==
    /\ pc[p] = "bookConsultation_student"
    /\ UNCHANGED <<now, serial, catalog, enrollmentsTable, testAttemptsTable,
                   lessonProgressTable>>
    /\ LET student ==
               SelectSeq(usersTable, LAMBDA u : /\ u.id = input[p].student_id
                                            /\ u.role = "student")
       IN  IF Len(student) = 0
           THEN Throw(p, <<"Student not found or invalid role">>)
           ELSE Goto(p, "bookConsultation_slot", local[p])

\* bookConsultation_slot without the status condition
bookConsultation_slot_anyStatus(p) ==
    /\ pc[p] = "bookConsultation_slot"
    /\ UNCHANGED <<now, serial, catalog, enrollmentsTable, testAttemptsTable,
                   lessonProgressTable>>
    /\ LET slot ==
               SelectSeq(consultationSlotsTable,
                     LAMBDA c : c.id = input[p].slot_id)
       IN  IF Len(slot) = 0
           THEN Throw(p, <<"Consultation slot not found or not available">>)
           ELSE Goto(p, "bookConsultation_update", local[p])

\* Verify the consultation slot exists and is available
bookConsultation_slot(p) ==
    /\ pc[p] = "bookConsultation_slot"
    /\ UNCHANGED <<now, serial, catalog, enrollmentsTable, testAttemptsTable,
                   lessonProgressTable>>
    /\ LET slot ==
               SelectSeq(consultationSlotsTable,
                     LAMBDA c : /\ c.id = input[p].slot_id
                                /\ c.status = "available")
       IN  IF Len(slot) = 0
           THEN Throw(p, <<"Consultation slot not found or not available">>)
           ELSE Goto(p, "bookConsultation_update", local[p])

\* Update the slot to booked status with student assignment
bookConsultation_update(p) ==
    /\ pc[p] = "bookConsultation_update"
    /\ UNCHANGED <<now, serial, usersTable, testsTable, questionsTable, lessonsTable,
                   coursesTable, enrollmentsTable, testAttemptsTable,
                   lessonProgressTable>>
    /\ LET updated(c) == [c EXCEPT !.status = "booked",
                                   !.student_id = Some(input[p].student_id),
                                   !.notes = input[p].notes,
                                   !.updated_at = now]
           set == [i \in DOMAIN consultationSlotsTable |->
                      IF consultationSlotsTable[i].id = input[p].slot_id
                      THEN updated(consultationSlotsTable[i])
                      ELSE consultationSlotsTable[i]]
           result_ == SelectSeq(set, LAMBDA c : c.id = input[p].slot_id)
       IN  /\ consultationSlotsTable' = set
           /\ Return(p, result_[1])

(***************************************************************************)
(* registerUser                                                            *)
(***************************************************************************)
\* a request arrives
registerUser(p, email, role) ==
    /\ Call(p, "registerUser_existing",
            [op |-> "registerUser", email |-> email, role |-> role])
    /\ UNCHANGED <<now, serial, catalog, enrollmentsTable, testAttemptsTable,
                   lessonProgressTable>>

\* Normalize email to lowercase; check if user already exists
registerUser_existing(p) ==
    /\ pc[p] = "registerUser_existing"
    /\ UNCHANGED <<now, serial, catalog, enrollmentsTable, testAttemptsTable,
                   lessonProgressTable>>
    /\ LET normalizedEmail == toLowerCase(input[p].email)
           existingUser ==
               SelectSeq(usersTable, LAMBDA u : u.email = normalizedEmail)
       IN  IF Len(existingUser) > 0
           THEN Throw(p, <<"User with this email already exists">>)
           ELSE Goto(p, "registerUser_hash",
                     [normalizedEmail |-> normalizedEmail])

\* Hash the password
registerUser_hash(p) ==
    /\ pc[p] = "registerUser_hash"
    /\ UNCHANGED <<now, serial, catalog, enrollmentsTable, testAttemptsTable,
                   lessonProgressTable>>
    /\ Goto(p, "registerUser_insert", local[p])

\* Insert new user; users.email is unique
registerUser_insert(p) ==
    /\ pc[p] = "registerUser_insert"
    /\ nextval("users")
    /\ UNCHANGED <<now, testsTable, questionsTable, lessonsTable, coursesTable,
                   consultationSlotsTable, enrollmentsTable, testAttemptsTable,
                   lessonProgressTable>>
    /\ LET user == [id |-> NextId("users"),
                    email |-> local[p].normalizedEmail,
                    role |-> input[p].role]
       IN  IF \E u \in Range(usersTable) : u.email = user.email
           THEN /\ Throw(p, <<"unique violation">>)
                /\ UNCHANGED usersTable
           ELSE /\ usersTable' = Append(usersTable, user)
                /\ Return(p, user)

(***************************************************************************)
(* createCourse                                                            *)
(***************************************************************************)
\* a request arrives
createCourse(p, instructor_id) ==
    /\ Call(p, "createCourse_instructor",
            [op |-> "createCourse", instructor_id |-> instructor_id])
    /\ UNCHANGED <<now, serial, catalog, enrollmentsTable, testAttemptsTable,
                   lessonProgressTable>>

\* Verify that the instructor exists and has the correct role
createCourse_instructor(p) ==
    /\ pc[p] = "createCourse_instructor"
    /\ UNCHANGED <<now, serial, catalog, enrollmentsTable, testAttemptsTable,
                   lessonProgressTable>>
    /\ LET instructor ==
               SelectSeq(usersTable, LAMBDA u : u.id = input[p].instructor_id)
       IN  IF Len(instructor) = 0
           THEN Throw(p, <<"Instructor not found">>)
           ELSE IF instructor[1].role # "instructor"
           THEN Throw(p, <<"User must be an instructor to create courses">>)
           ELSE Goto(p, "createCourse_insert", local[p])

\* Insert course record
createCourse_insert(p) ==
    /\ pc[p] = "createCourse_insert"
    /\ nextval("courses")
    /\ UNCHANGED <<now, usersTable, testsTable, questionsTable, lessonsTable,
                   consultationSlotsTable, enrollmentsTable, testAttemptsTable,
                   lessonProgressTable>>
    /\ LET course == [id |-> NextId("courses")]
       IN  /\ coursesTable' = Append(coursesTable, course)
           /\ Return(p, course)

(***************************************************************************)
(* createTest                                                              *)
(***************************************************************************)
\* a request arrives; passing_score is a whole number, which the real column
\* holds as it is
createTest(p, course_id, max_attempts, passing_score) ==
    /\ Call(p, "createTest_course",
            [op |-> "createTest", course_id |-> course_id,
             max_attempts |-> max_attempts, passing_score |-> passing_score])
    /\ UNCHANGED <<now, serial, catalog, enrollmentsTable, testAttemptsTable,
                   lessonProgressTable>>

\* Verify that the course exists
createTest_course(p) ==
    /\ pc[p] = "createTest_course"
    /\ UNCHANGED <<now, serial, catalog, enrollmentsTable, testAttemptsTable,
                   lessonProgressTable>>
    /\ LET course == SelectSeq(coursesTable, LAMBDA c : c.id = input[p].course_id)
       IN  IF Len(course) = 0
           THEN Throw(p, <<"Course not found", input[p].course_id>>)
           ELSE Goto(p, "createTest_insert", local[p])

\* Insert test record
createTest_insert(p) ==
    /\ pc[p] = "createTest_insert"
    /\ nextval("tests")
    /\ UNCHANGED <<now, usersTable, questionsTable, lessonsTable, coursesTable,
                   consultationSlotsTable, enrollmentsTable, testAttemptsTable,
                   lessonProgressTable>>
    /\ LET test == [id |-> NextId("tests"),
                    course_id |-> input[p].course_id,
                    max_attempts |-> input[p].max_attempts,
                    passing_score |-> input[p].passing_score]
       IN  /\ testsTable' = Append(testsTable, test)
           /\ Return(p, test)

(***************************************************************************)
(* createConsultationSlot                                                  *)
(***************************************************************************)
\* a request arrives
createConsultationSlot(p, instructor_id, start_time, end_time) ==
    /\ Call(p, "createConsultationSlot_instructor",
            [op |-> "createConsultationSlot", instructor_id |-> instructor_id,
             start_time |-> start_time, end_time |-> end_time])
    /\ UNCHANGED <<now, serial, catalog, enrollmentsTable, testAttemptsTable,
                   lessonProgressTable>>

\* Verify that the instructor exists and is actually an instructor; validate
\* time slot logic
createConsultationSlot_instructor(p) ==
    /\ pc[p] = "createConsultationSlot_instructor"
    /\ UNCHANGED <<now, serial, catalog, enrollmentsTable, testAttemptsTable,
                   lessonProgressTable>>
    /\ LET instructor ==
               SelectSeq(usersTable, LAMBDA u : u.id = input[p].instructor_id)
       IN  IF Len(instructor) = 0
           THEN Throw(p, <<"Instructor not found", input[p].instructor_id>>)
           ELSE IF instructor[1].role # "instructor"
           THEN Throw(p, <<"User is not an instructor", input[p].instructor_id>>)
           ELSE IF input[p].start_time >= input[p].end_time
           THEN Throw(p, <<"Start time must be before end time">>)
           ELSE Goto(p, "createConsultationSlot_insert", local[p])

\* Insert consultation slot record
createConsultationSlot_insert(p) ==
    /\ pc[p] = "createConsultationSlot_insert"
    /\ nextval("consultation_slots")
    /\ UNCHANGED <<now, usersTable, testsTable, questionsTable, lessonsTable,
                   coursesTable, enrollmentsTable, testAttemptsTable,
                   lessonProgressTable>>
    /\ LET slot == [id |-> NextId("consultation_slots"),
                    instructor_id |-> input[p].instructor_id,
                    start_time |-> input[p].start_time,
                    end_time |-> input[p].end_time,
                    status |-> "available",
                    student_id |-> Null,
                    notes |-> Null,
                    updated_at |-> now]
       IN  /\ consultationSlotsTable' = Append(consultationSlotsTable, slot)
           /\ Return(p, slot)

(***************************************************************************)
(* Time passes.                                                            *)
(***************************************************************************)
Tick ==
    /\ now < MaxTime
    /\ now' = now + 1
    /\ UNCHANGED <<catalog, serial, enrollmentsTable, testAttemptsTable,
                   lessonProgressTable, pc, input, local, result, wrote>>

(***************************************************************************)
(* The worlds the engine runs in.                                          *)
(***************************************************************************)
\* the email of the user the world starts with under this id: "u1@x.io",
\* "u2@x.io", ...
Email(id) == <<117, 48 + id, 64, 120, 46, 105, 111>>

Student(id) == [id |-> id, email |-> Email(id), role |-> "student"]
Instructor(id) == [id |-> id, email |-> Email(id), role |-> "instructor"]

\* ids a request may carry: those of the table and the least one that
\* matches no row
IdsFor(table) ==
    LET ids == {table[i].id : i \in DOMAIN table}
    IN  ids \cup {CHOOSE n \in 1..(Len(table) + 1) :
                      n \notin ids /\ \A m \in 1..(n - 1) : m \in ids}

\* the ids the sequence of a table has issued to INSERTs that were rejected
LostIds(name, table) == serial[name] - Len(table)

\* some user has the id
IsUser(id) == \E u \in Range(usersTable) : u.id = id

\* every sequence has issued the ids of the rows of its table
InitSerial ==
    serial = [users |-> Len(usersTable), courses |-> Len(coursesTable),
              lessons |-> Len(lessonsTable), tests |-> Len(testsTable),
              questions |-> Len(questionsTable),
              enrollments |-> Len(enrollmentsTable),
              test_attempts |-> Len(testAttemptsTable),
              lesson_progress |-> Len(lessonProgressTable),
              consultation_slots |-> Len(consultationSlotsTable)]

\* a test of course 1
Test(id, max_attempts, passing_score) ==
    [id |-> id, course_id |-> 1, max_attempts |-> max_attempts,
     passing_score |-> passing_score]

Question(id, correct_answer, points) ==
    [id |-> id, test_id |-> 1, correct_answer |-> correct_answer,
     points |-> points]

\* the answer maps a client may submit: any set of keys, any values
AnswerMaps(keys, strings) ==
    UNION {[K -> strings] : K \in SUBSET keys}

InitProcs ==
    /\ pc = [p \in Procs |-> "idle"]
    /\ input = [p \in Procs |-> NoInput]
    /\ local = [p \in Procs |-> NoLocal]
    /\ result = [p \in Procs |-> NoResult]
    /\ wrote = [p \in Procs |-> FALSE]

InitStore ==
    /\ coursesTable = <<[id |-> 1]>>
    /\ enrollmentsTable = <<>>
    /\ testAttemptsTable = <<>>
    /\ lessonProgressTable = <<>>
    /\ now = 0
    /\ consultationSlotsTable = <<>>

\* the requests of the attempt lifecycle and their round trips
AttemptSteps(p, answerMaps) ==
    \/ \E t \in IdsFor(testsTable), s \in IdsFor(usersTable) :
           createTestAttempt(p, t, s)
    \/ createTestAttempt_test(p)
    \/ createTestAttempt_student(p)
    \/ createTestAttempt_count(p)
    \/ createTestAttempt_insert(p)
    \/ \E a \in IdsFor(testAttemptsTable), answers \in answerMaps :
           submitTestAttempt(p, a, answers)
    \/ submitTestAttempt_attempt(p)
    \/ submitTestAttempt_test(p)
    \/ submitTestAttempt_questions(p)
    \/ submitTestAttempt_update(p)

(***************************************************************************)
(* SpecAttempt: the attempt lifecycle of two students and an instructor on *)
(* one test, one request at a time.                                        *)
(***************************************************************************)
\* the client either leaves the answer out or answers "A"
FewAnswerMaps == AnswerMaps({"1"}, {<<65>>})

\* the client answers "A"
OneAnswerMap == {[k \in {"1"} |-> <<65>>]}

InitAttempt ==
    /\ InitStore
    /\ InitProcs
    /\ usersTable = <<Student(1), Student(2), Instructor(3)>>
    /\ \E m \in 1..MaxAttempts : testsTable = <<Test(1, m, 50)>>
    /\ questionsTable \in {<<>>, <<Question(1, <<97>>, 1)>>}
    /\ lessonsTable = <<>>
    /\ InitSerial

NextAttempt == AttemptSteps(1, OneAnswerMap)

SpecAttempt == InitAttempt /\ [][NextAttempt]_vars

(***************************************************************************)
(* SpecSubmit: the attempt lifecycle of one student while time passes.     *)
(***************************************************************************)
InitSubmit ==
    /\ InitStore
    /\ InitProcs
    /\ usersTable = <<Student(1), Instructor(2)>>
    /\ \E m \in 1..MaxAttempts : testsTable = <<Test(1, m, 50)>>
    /\ questionsTable = <<Question(1, <<97>>, 1)>>
    /\ lessonsTable = <<>>
    /\ InitSerial

NextSubmit == AttemptSteps(1, FewAnswerMaps) \/ Tick

SpecSubmit == InitSubmit /\ [][NextSubmit]_vars

(***************************************************************************)
(* SpecConc: two requests of the attempt lifecycle of one student          *)
(* interleave between their round trips.                                   *)
(***************************************************************************)
InitConc ==
    /\ InitStore
    /\ InitProcs
    /\ usersTable = <<Student(1)>>
    /\ \E m \in 1..MaxAttempts : testsTable = <<Test(1, m, 50)>>
    /\ questionsTable = <<Question(1, <<97>>, 1)>>
    /\ lessonsTable = <<>>
    /\ InitSerial

NextConc == \E p \in Procs : AttemptSteps(p, FewAnswerMaps)

SpecConc == InitConc /\ [][NextConc]_vars

(***************************************************************************)
(* SpecGrade: one submission of an in-progress attempt of a test with      *)
(* passing_score 50, for every question set and answer map within the      *)
(* bounds.                                                                 *)
(***************************************************************************)
\* "a", " A" and " "
CorrectAnswers == {<<97>>, <<32, 65>>, <<32>>}

\* the question sets of test 1: one or two questions
QuestionSets ==
    LET Q(id) == {Question(id, c, pts) :
                      c \in CorrectAnswers, pts \in 1..MaxPoints}
    IN  {<<q>> : q \in Q(1)} \cup {<<q1, q2>> : q1 \in Q(1), q2 \in Q(2)}

GradeKeys == {ToString(1), ToString(2)}

InitGrade ==
    /\ coursesTable = <<[id |-> 1]>>
    /\ enrollmentsTable = <<>>
    /\ lessonProgressTable = <<>>
    /\ now = 0
    /\ consultationSlotsTable = <<>>
    /\ usersTable = <<Student(1)>>
    /\ testsTable = <<Test(1, 1, 50)>>
    /\ questionsTable \in QuestionSets
    /\ lessonsTable = <<>>
    /\ testAttemptsTable = <<[id |-> 1, test_id |-> 1, student_id |-> 1,
                              score |-> Null, answers |-> <<>>,
                              started_at |-> 0, completed_at |-> Null,
                              is_passed |-> Null]>>
    /\ pc = [p \in Procs |-> IF p = 1 THEN "submitTestAttempt_attempt"
                                       ELSE "idle"]
    /\ \E answers \in AnswerMaps(GradeKeys, StringsUpTo(MaxLen)) :
           input = [p \in Procs |->
                        IF p = 1 THEN [op |-> "submitTestAttempt",
                                       attempt_id |-> 1, answers |-> answers]
                                 ELSE NoInput]
    /\ local = [p \in Procs |-> NoLocal]
    /\ result = [p \in Procs |-> NoResult]
    /\ wrote = [p \in Procs |-> FALSE]
    /\ InitSerial

NextGrade ==
    \/ submitTestAttempt_attempt(1)
    \/ submitTestAttempt_test(1)
    \/ submitTestAttempt_questions(1)
    \/ submitTestAttempt_update(1)

SpecGrade == InitGrade /\ [][NextGrade]_vars

(***************************************************************************)
(* SpecRounding: one submission of an in-progress attempt of a test with   *)
(* two questions of 29 and 21 points and a passing_score of 0, 42, 58 or   *)
(* 100, for every answer map within the bounds: the computed score is 0,   *)
(* 42, 57.99999999999999 or 100.                                           *)
(***************************************************************************)
InitRounding ==
    /\ coursesTable = <<[id |-> 1]>>
    /\ enrollmentsTable = <<>>
    /\ lessonProgressTable = <<>>
    /\ now = 0
    /\ consultationSlotsTable = <<>>
    /\ usersTable = <<Student(1)>>
    /\ \E passing_score \in {0, 42, 58, 100} :
           testsTable = <<Test(1, 1, passing_score)>>
    /\ questionsTable = <<Question(1, <<97>>, 29), Question(2, <<97>>, 21)>>
    /\ lessonsTable = <<>>
    /\ testAttemptsTable = <<[id |-> 1, test_id |-> 1, student_id |-> 1,
                              score |-> Null, answers |-> <<>>,
                              started_at |-> 0, completed_at |-> Null,
                              is_passed |-> Null]>>
    /\ pc = [p \in Procs |-> IF p = 1 THEN "submitTestAttempt_attempt"
                                       ELSE "idle"]
    /\ \E answers \in AnswerMaps(GradeKeys, StringsUpTo(MaxLen)) :
           input = [p \in Procs |->
                        IF p = 1 THEN [op |-> "submitTestAttempt",
                                       attempt_id |-> 1, answers |-> answers]
                                 ELSE NoInput]
    /\ local = [p \in Procs |-> NoLocal]
    /\ result = [p \in Procs |-> NoResult]
    /\ wrote = [p \in Procs |-> FALSE]
    /\ InitSerial

NextRounding ==
    \/ submitTestAttempt_attempt(1)
    \/ submitTestAttempt_test(1)
    \/ submitTestAttempt_questions(1)
    \/ submitTestAttempt_update(1)

SpecRounding == InitRounding /\ [][NextRounding]_vars

(***************************************************************************)
(* SpecProgress: enrollment and lesson completion in a course of           *)
(* 1..MaxLessons lessons, one request at a time.                           *)
(***************************************************************************)
Lesson(id, course_id) == [id |-> id, course_id |-> course_id]

\* the requests of the progress cascade and their round trips
ProgressSteps(p) ==
    \/ \E s \in IdsFor(usersTable), c \in IdsFor(coursesTable) :
           createEnrollment(p, s, c)
    \/ createEnrollment_student(p)
    \/ createEnrollment_course(p)
    \/ createEnrollment_existing(p)
    \/ createEnrollment_insert(p)
    \/ \E s \in IdsFor(usersTable), l \in IdsFor(lessonsTable) :
           /\ IsUser(s)
           /\ markLessonComplete(p, s, l)
    \/ markLessonComplete_lesson(p)
    \/ markLessonComplete_existing(p)
    \/ markLessonComplete_upsert(p)
    \/ updateCourseProgress_lesson(p)
    \/ updateCourseProgress_total(p)
    \/ updateCourseProgress_completed(p)
    \/ updateCourseProgress_enrollment(p)

\* a markLessonComplete request for a student id that no user has: its
\* insert is rejected and loses an id
StrangerSteps(p) ==
    \E s \in IdsFor(usersTable), l \in IdsFor(lessonsTable) :
        /\ ~IsUser(s)
        /\ LostIds("lesson_progress", lessonProgressTable) < MaxGaps
        /\ markLessonComplete(p, s, l)

\* n lessons of course 1 followed by m lessons of course 2
Lessons(n, m) == [i \in 1..(n + m) |-> Lesson(i, IF i <= n THEN 1 ELSE 2)]

\* either one student and two courses, the first with 1..MaxLessons lessons
\* and the second with one, or two students sharing a course of two lessons
InitProgress ==
    /\ InitProcs
    /\ enrollmentsTable = <<>>
    /\ testAttemptsTable = <<>>
    /\ lessonProgressTable = <<>>
    /\ now = 0
    /\ consultationSlotsTable = <<>>
    /\ testsTable = <<>>
    /\ questionsTable = <<>>
    /\ \/ /\ usersTable = <<Student(1)>>
          /\ coursesTable = <<[id |-> 1], [id |-> 2]>>
          /\ \E n \in 1..MaxLessons : lessonsTable = Lessons(n, 1)
       \/ /\ usersTable = <<Student(1), Student(2)>>
          /\ coursesTable = <<[id |-> 1]>>
          /\ lessonsTable = Lessons(2, 0)
    /\ InitSerial

NextProgress == ProgressSteps(1)

SpecProgress == InitProgress /\ [][NextProgress]_vars

(***************************************************************************)
(* SpecCourse: one student and one course that starts with one lesson and  *)
(* gains lessons while the student enrolls and completes lessons and time  *)
(* passes; one request at a time.                                          *)
(***************************************************************************)
\* the instructor sends createLesson while there are fewer than MaxLessons
\* lessons
LessonSteps(p) ==
    \/ /\ Len(lessonsTable) < MaxLessons
       /\ \E c \in IdsFor(coursesTable) : createLesson(p, c)
    \/ createLesson_course(p)
    \/ createLesson_insert(p)

InitCourse ==
    /\ InitStore
    /\ InitProcs
    /\ usersTable = <<Student(1)>>
    /\ testsTable = <<>>
    /\ questionsTable = <<>>
    /\ lessonsTable = Lessons(1, 0)
    /\ InitSerial

NextCourse == ProgressSteps(1) \/ StrangerSteps(1) \/ LessonSteps(1) \/ Tick

SpecCourse == InitCourse /\ [][NextCourse]_vars

(***************************************************************************)
(* SpecEngine: a student and an instructor use the attempt lifecycle and    *)
(* the progress cascade of a one-lesson course, one request at a time; any *)
(* round trip of createTestAttempt, submitTestAttempt and                  *)
(* markLessonComplete may be rejected by the data store.                   *)
(***************************************************************************)
InitEngine ==
    /\ InitStore
    /\ InitProcs
    /\ usersTable = <<Student(1), Instructor(2)>>
    /\ \E m \in 1..MaxAttempts : testsTable = <<Test(1, m, 50)>>
    /\ questionsTable \in {<<>>, <<Question(1, <<97>>, 1)>>}
    /\ lessonsTable = Lessons(1, 0)
    /\ InitSerial

NextEngine ==
    \/ AttemptSteps(1, OneAnswerMap)
    \/ ProgressSteps(1)
    \/ StrangerSteps(1)
    \/ createTestAttempt_fails(1)
    \/ submitTestAttempt_fails(1)
    \/ markLessonComplete_fails(1)

SpecEngine == InitEngine /\ [][NextEngine]_vars

(***************************************************************************)
(* SpecCascade: two markLessonComplete requests interleave between their   *)
(* round trips; student 1 is enrolled in a course of two lessons.          *)
(***************************************************************************)
\* the enrollment row createEnrollment inserts
Enrollment(id, student_id, course_id) ==
    [id |-> id, student_id |-> student_id, course_id |-> course_id,
     status |-> "active", progress_percentage |-> Num(0), enrolled_at |-> 0,
     completed_at |-> Null]

\* the markLessonComplete requests and their round trips
MarkSteps(p) ==
    \/ \E s \in IdsFor(usersTable), l \in IdsFor(lessonsTable) :
           /\ IsUser(s) \/ LostIds("lesson_progress", lessonProgressTable) < MaxGaps
           /\ markLessonComplete(p, s, l)
    \/ markLessonComplete_lesson(p)
    \/ markLessonComplete_existing(p)
    \/ markLessonComplete_upsert(p)
    \/ updateCourseProgress_lesson(p)
    \/ updateCourseProgress_total(p)
    \/ updateCourseProgress_completed(p)
    \/ updateCourseProgress_enrollment(p)

InitCascade ==
    /\ InitProcs
    /\ now = 0
    /\ consultationSlotsTable = <<>>
    /\ usersTable = <<Student(1)>>
    /\ testsTable = <<>>
    /\ questionsTable = <<>>
    /\ coursesTable = <<[id |-> 1]>>
    /\ lessonsTable = Lessons(2, 0)
    /\ enrollmentsTable = <<Enrollment(1, 1, 1)>>
    /\ testAttemptsTable = <<>>
    /\ lessonProgressTable = <<>>
    /\ InitSerial

NextCascade == \E p \in Procs : MarkSteps(p)

SpecCascade == InitCascade /\ [][NextCascade]_vars

(***************************************************************************)
(* SpecEmpty: the attempt lifecycle of one student on a test that starts   *)
(* without questions and gains them; one request at a time.                *)
(***************************************************************************)
\* the instructor sends createQuestion while there are fewer than
\* MaxQuestions questions
QuestionSteps(p) ==
    \/ /\ Len(questionsTable) < MaxQuestions
       /\ \E t \in IdsFor(testsTable), pts \in 1..MaxPoints :
              createQuestion(p, t, <<97>>, pts)
    \/ createQuestion_test(p)
    \/ createQuestion_insert(p)

InitEmpty ==
    /\ InitStore
    /\ InitProcs
    /\ usersTable = <<Student(1)>>
    /\ \E m \in 1..MaxAttempts : testsTable = <<Test(1, m, 50)>>
    /\ questionsTable = <<>>
    /\ lessonsTable = <<>>
    /\ InitSerial

NextEmpty == AttemptSteps(1, FewAnswerMaps) \/ QuestionSteps(1)

SpecEmpty == InitEmpty /\ [][NextEmpty]_vars

(***************************************************************************)
(* SpecIsolation: two students, each served by one process, start attempts *)
(* of one test and complete lessons of two courses while their requests    *)
(* interleave.  Student 1 is enrolled in both courses, student 2 in the    *)
(* first.                                                                  *)
(***************************************************************************)
InitIsolation ==
    /\ InitProcs
    /\ now = 0
    /\ consultationSlotsTable = <<>>
    /\ usersTable = <<Student(1), Student(2)>>
    /\ testsTable = <<Test(1, 1, 50)>>
    /\ questionsTable = <<>>
    /\ coursesTable = <<[id |-> 1], [id |-> 2]>>
    /\ lessonsTable = Lessons(1, 1)
    /\ enrollmentsTable = <<Enrollment(1, 1, 1), Enrollment(2, 2, 1),
                            Enrollment(3, 1, 2)>>
    /\ testAttemptsTable = <<>>
    /\ lessonProgressTable = <<>>
    /\ InitSerial

\* process p serves the requests of student p
NextIsolation ==
    \E p \in Procs :
        \/ \E l \in IdsFor(lessonsTable) : markLessonComplete(p, p, l)
        \/ markLessonComplete_lesson(p)
        \/ markLessonComplete_existing(p)
        \/ markLessonComplete_upsert(p)
        \/ updateCourseProgress_lesson(p)
        \/ updateCourseProgress_total(p)
        \/ updateCourseProgress_completed(p)
        \/ updateCourseProgress_enrollment(p)
        \/ \E t \in IdsFor(testsTable) : createTestAttempt(p, t, p)
        \/ createTestAttempt_test(p)
        \/ createTestAttempt_student(p)
        \/ createTestAttempt_count(p)
        \/ createTestAttempt_insert(p)

SpecIsolation == InitIsolation /\ [][NextIsolation]_vars

(***************************************************************************)
(* SpecBooking: two students and an instructor offer and book consultation *)
(* slots, one request at a time; the first slot is available, the second   *)
(* is booked, completed or cancelled.                                      *)
(***************************************************************************)
ConsultationSlot(id, status, student_id) ==
    [id |-> id, instructor_id |-> 3, start_time |-> 0, end_time |-> 1,
     status |-> status, student_id |-> student_id, notes |-> Null,
     updated_at |-> 0]

\* the notes a request may carry: none or a text
Notes == {Null, Some(<<97>>)}

\* an instructor offers slots while there are fewer than MaxSlots
SlotSteps(p) ==
    \/ /\ Len(consultationSlotsTable) < MaxSlots
       /\ \E i \in IdsFor(usersTable), end_time \in 0..1 :
              createConsultationSlot(p, i, 0, end_time)
    \/ createConsultationSlot_instructor(p)
    \/ createConsultationSlot_insert(p)

BookingSteps(p, notes) ==
    \/ \E c \in IdsFor(consultationSlotsTable), s \in IdsFor(usersTable),
          n \in notes :
           bookConsultation(p, c, s, n)
    \/ bookConsultation_student(p)
    \/ bookConsultation_slot(p)
    \/ bookConsultation_update(p)

InitBooking ==
    /\ InitProcs
    /\ now = 0
    /\ usersTable = <<Student(1), Student(2), Instructor(3)>>
    /\ testsTable = <<>>
    /\ questionsTable = <<>>
    /\ coursesTable = <<>>
    /\ lessonsTable = <<>>
    /\ enrollmentsTable = <<>>
    /\ testAttemptsTable = <<>>
    /\ lessonProgressTable = <<>>
    /\ \E other \in {ConsultationSlot(2, "booked", Some(2)),
                      ConsultationSlot(2, "completed", Some(2)),
                      ConsultationSlot(2, "cancelled", Null)} :
           consultationSlotsTable =
               <<ConsultationSlot(1, "available", Null), other>>
    /\ InitSerial

\* every booking carries a text
NextBooking == BookingSteps(1, {Some(<<97>>)}) \/ SlotSteps(1) \/ Tick

SpecBooking == InitBooking /\ [][NextBooking]_vars

(***************************************************************************)
(* SpecBookingConc: two bookConsultation requests for one available slot   *)
(* interleave between their round trips.                                   *)
(***************************************************************************)
InitBookingConc ==
    /\ InitProcs
    /\ now = 0
    /\ usersTable = <<Student(1), Student(2), Instructor(3)>>
    /\ testsTable = <<>>
    /\ questionsTable = <<>>
    /\ coursesTable = <<>>
    /\ lessonsTable = <<>>
    /\ enrollmentsTable = <<>>
    /\ testAttemptsTable = <<>>
    /\ lessonProgressTable = <<>>
    /\ consultationSlotsTable = <<ConsultationSlot(1, "available", Null)>>
    /\ InitSerial

NextBookingConc == \E p \in Procs : BookingSteps(p, Notes)

SpecBookingConc == InitBookingConc /\ [][NextBookingConc]_vars

(***************************************************************************)
(* SpecRead: the attempt lifecycle of one student on a one-question test,  *)
(* and the three read accessors; one request at a time.                    *)
(***************************************************************************)
ReadSteps(p) ==
    \/ \E s \in IdsFor(usersTable), t \in IdsFor(testsTable) :
           getTestAttemptsByStudent(p, s, t)
    \/ getTestAttemptsByStudent_select(p)
    \/ \E a \in IdsFor(testAttemptsTable) : getTestAttemptById(p, a)
    \/ getTestAttemptById_select(p)
    \/ \E t \in IdsFor(testsTable) : getTestAttemptsByTest(p, t)
    \/ getTestAttemptsByTest_select(p)

InitRead ==
    /\ InitStore
    /\ InitProcs
    /\ usersTable = <<Student(1)>>
    /\ \E m \in 1..MaxAttempts : testsTable = <<Test(1, m, 50)>>
    /\ questionsTable = <<Question(1, <<97>>, 1)>>
    /\ lessonsTable = <<>>
    /\ InitSerial

NextRead == AttemptSteps(1, FewAnswerMaps) \/ ReadSteps(1)

SpecRead == InitRead /\ [][NextRead]_vars

(***************************************************************************)
(* SpecSetup: the platform starts with an empty database.  Users register, *)
(* instructors create a course and a test, and users start attempts; two   *)
(* requests interleave between their round trips.                          *)
(***************************************************************************)
\* the emails a registration may carry: "n@x.io", "N@x.io" and "m@x.io"
Emails == {<<c, 64, 120, 46, 105, 111>> : c \in {110, 78, 109}}

\* users register while there are fewer than MaxUsers
RegisterSteps(p) ==
    \/ /\ Len(usersTable) < MaxUsers
       /\ \E email \in Emails, role \in {"student", "instructor"} :
              registerUser(p, email, role)
    \/ registerUser_existing(p)
    \/ registerUser_hash(p)
    \/ registerUser_insert(p)

\* instructors create courses and tests while there are fewer than MaxCourses
CatalogSteps(p) ==
    \/ /\ Len(coursesTable) < MaxCourses
       /\ \E i \in IdsFor(usersTable) : createCourse(p, i)
    \/ createCourse_instructor(p)
    \/ createCourse_insert(p)
    \/ /\ Len(testsTable) < MaxCourses
       /\ \E c \in IdsFor(coursesTable) : createTest(p, c, 1, 50)
    \/ createTest_course(p)
    \/ createTest_insert(p)

StartSteps(p) ==
    \/ \E t \in IdsFor(testsTable), s \in IdsFor(usersTable) :
           createTestAttempt(p, t, s)
    \/ createTestAttempt_test(p)
    \/ createTestAttempt_student(p)
    \/ createTestAttempt_count(p)
    \/ createTestAttempt_insert(p)

InitSetup ==
    /\ InitProcs
    /\ now = 0
    /\ usersTable = <<>>
    /\ coursesTable = <<>>
    /\ lessonsTable = <<>>
    /\ testsTable = <<>>
    /\ questionsTable = <<>>
    /\ enrollmentsTable = <<>>
    /\ testAttemptsTable = <<>>
    /\ lessonProgressTable = <<>>
    /\ consultationSlotsTable = <<>>
    /\ InitSerial

\* both processes serve registrations; process 1 serves the instructors and
\* process 2 the users who start attempts
NextSetup ==
    \/ \E p \in Procs : RegisterSteps(p)
    \/ CatalogSteps(1)
    \/ StartSteps(2)

SpecSetup == InitSetup /\ [][NextSetup]_vars

(***************************************************************************)
(* Properties.                                                             *)
(***************************************************************************)
\* positions of the test_attempts rows of a (student, test) pair
AttemptsOf(table, s, t) ==
    {i \in DOMAIN table : table[i].student_id = s /\ table[i].test_id = t}

TestIds == {testsTable[i].id : i \in DOMAIN testsTable}
TestById(t) == CHOOSE row \in Range(testsTable) : row.id = t

\* process p's call of handler op ends in this step
Returns(p, op) == pc[p] # "idle" /\ pc'[p] = "idle" /\ input[p].op = op

\* process p's last call was handler op and has ended
Finished(p, op) == pc[p] = "idle" /\ result[p].op = op
Succeeded(p, op) == Finished(p, op) /\ result[p].error = <<>>
Failed(p, op, kind) ==
    Finished(p, op) /\ result[p].error # <<>> /\ result[p].error[1] = kind

IsCompleted(attempt) == ~IsNull(attempt.completed_at)

RECURSIVE SumPoints(_)
SumPoints(S) ==
    IF S = {} THEN 0
    ELSE LET q == CHOOSE x \in S : TRUE IN q.points + SumPoints(S \ {q})

QuestionsOf(t) == {q \in Range(questionsTable) : q.test_id = t}

\* x >= y for two values of real columns (their denominators are powers of
\* two)
AtLeast(x, y) ==
    LET d == IF x.den >= y.den THEN x.den ELSE y.den
    IN  x.num * (d \div x.den) >= y.num * (d \div y.den)

\* the value x of a real column is the number 100 * a / b
IsExactPercentOf(x, a, b) == x = Frac(100 * a, b)

\* the value x of a real column is a single-precision number nearest to
\* 100 * a / b, for 0 <= a <= b <= 100 (so 100 * a / b is 0 or at least 1):
\* with I + F / U the value x and Q + R / b the number 100 * a / b, where U
\* is the number of single-precision steps in 1 at x, the two differ by at
\* most half a step
IsPercentOf(x, a, b) ==
    IF a = 0 THEN x = Num(0)
    ELSE /\ x.num >= x.den
         /\ LET I == x.num \div x.den
                E == Len(BitsOf(I)) - 1
                U == Pow2((RealBits - 1) - E)
                F == (x.num % x.den) * (U \div x.den)
                Q == (100 * a) \div b
                R == (100 * a) % b
                D == (I - Q) * U * b + F * b - R * U
            IN  /\ U % x.den = 0
                /\ I - Q \in {-1, 0, 1}
                /\ D <= b \div 2
                /\ -D <= b \div 2

\* C1: with one request at a time, no (student, test) pair ever has more
\* test_attempts rows than the test's max_attempts, and a createTestAttempt
\* call made when the pair already has max_attempts rows or more ends with the
\* limit error naming max_attempts and inserts no row.
C1_AttemptCapSequential ==
    [][ /\ \A t \in TestIds, s \in IdsFor(usersTable) :
               Cardinality(AttemptsOf(testAttemptsTable', s, t))
                   <= TestById(t).max_attempts
        /\ \A p \in Procs :
               ( /\ Returns(p, "createTestAttempt")
                 /\ input[p].test_id \in TestIds
                 /\ Cardinality(AttemptsOf(testAttemptsTable,
                                           input[p].student_id,
                                           input[p].test_id))
                        >= TestById(input[p].test_id).max_attempts )
               => /\ result'[p].error =
                         <<"Maximum attempts exceeded",
                           TestById(input[p].test_id).max_attempts>>
                  /\ testAttemptsTable' = testAttemptsTable
      ]_vars

\* a createTestAttempt call was refused at the limit, with an in-progress and
\* a completed attempt among the rows counted
C1_Witness ==
    /\ Failed(1, "createTestAttempt", "Maximum attempts exceeded")
    /\ LET rows == AttemptsOf(testAttemptsTable, result[1].input.student_id,
                              result[1].input.test_id)
       IN  /\ Cardinality(rows) = testsTable[1].max_attempts
           /\ \E i, j \in rows : /\ IsCompleted(testAttemptsTable[i])
                                 /\ ~IsCompleted(testAttemptsTable[j])

\* C2: when createTestAttempt calls interleave, no (student, test) pair ever
\* has more test_attempts rows than the test's max_attempts.
C2_AttemptCapConcurrent ==
    \A t \in TestIds, s \in IdsFor(usersTable) :
        Cardinality(AttemptsOf(testAttemptsTable, s, t))
            <= TestById(t).max_attempts

\* C3: with one request at a time, a completed attempt is never changed
\* again, and a submitTestAttempt call on a completed attempt ends with the
\* already-submitted error.
C3_SubmitOnce ==
    [][ /\ \A i \in DOMAIN testAttemptsTable :
               IsCompleted(testAttemptsTable[i])
               => testAttemptsTable'[i] = testAttemptsTable[i]
        /\ \A p \in Procs :
               ( /\ Returns(p, "submitTestAttempt")
                 /\ \E a \in Range(testAttemptsTable) :
                        a.id = input[p].attempt_id /\ IsCompleted(a) )
               => result'[p].error =
                      <<"Test attempt has already been submitted">>
      ]_vars

\* a second submission, made later and with other answers than the first, was
\* refused
C3_Witness ==
    /\ Failed(1, "submitTestAttempt",
              "Test attempt has already been submitted")
    /\ \E a \in Range(testAttemptsTable) :
           /\ a.id = result[1].input.attempt_id
           /\ a.answers # result[1].input.answers
           /\ now > Val(a.completed_at)

\* C4: when two submitTestAttempt calls for the same attempt interleave, at
\* most one of them succeeds, the other ends with the already-submitted
\* error, and the stored answers are those of the call that succeeded.
C4_SubmitOnceConcurrent ==
    \A p, q \in Procs :
        ( /\ p # q
          /\ Succeeded(p, "submitTestAttempt")
          /\ Finished(q, "submitTestAttempt")
          /\ result[q].input.attempt_id = result[p].input.attempt_id )
        => /\ result[q].error = <<"Test attempt has already been submitted">>
           /\ \A a \in Range(testAttemptsTable) :
                  a.id = result[p].input.attempt_id
                  => a.answers = result[p].input.answers

\* the attempt a finished submitTestAttempt call of process 1 was about
SubmittedAttempt ==
    CHOOSE a \in Range(testAttemptsTable) : a.id = result[1].input.attempt_id

\* an answer matches a question as C7 states it: the key is present and the
\* trimmed, lower-cased answer equals the trimmed, lower-cased correct_answer
MatchesNormalized(q, answers) ==
    /\ ToString(q.id) \in DOMAIN answers
    /\ toLowerCase(trim(answers[ToString(q.id)]))
         = toLowerCase(trim(q.correct_answer))

\* two answer maps differ only in case and outer whitespace of their values
SameNormalized(a1, a2) ==
    /\ DOMAIN a1 = DOMAIN a2
    /\ \A k \in DOMAIN a1 : toLowerCase(trim(a1[k])) = toLowerCase(trim(a2[k]))

\* C5: the score stored by a successful submitTestAttempt is 100 times the
\* points of the questions whose submitted answer matches correct_answer
\* (the key is present and the trimmed, lower-cased strings are equal) over
\* the points of all questions of the test, stored as the nearest
\* single-precision number, and lies within 0..100.
C5_GradingCorrectness ==
    Succeeded(1, "submitTestAttempt") =>
        LET a == SubmittedAttempt
            all == QuestionsOf(a.test_id)
            right == {q \in all : MatchesNormalized(q, result[1].input.answers)}
        IN  /\ ~IsNull(a.score)
            /\ IsPercentOf(Val(a.score), SumPoints(right), SumPoints(all))
            /\ AtLeast(Val(a.score), Num(0))
            /\ AtLeast(Num(100), Val(a.score))

\* C6: the is_passed a successful submitTestAttempt stores is true exactly
\* when the score the call computed, (earnedPoints / totalPoints) * 100 in
\* double precision, is at least the passing_score of the attempt's test; so
\* a computed score equal to passing_score passes, and with passing_score 0
\* every submission passes.
C6_PassVerdict ==
    [][ ( /\ pc[1] = "submitTestAttempt_update"
          /\ pc'[1] = "idle"
          /\ result'[1].error = <<>> )
        => LET a == CHOOSE r \in Range(testAttemptsTable') :
                        r.id = input[1].attempt_id
               passing_score == TestById(a.test_id).passing_score
           IN  /\ ~IsNull(a.is_passed)
               /\ Val(a.is_passed)
                     <=> Geq(local[1].score, DoubleOf(passing_score))
               /\ passing_score = 0 => Val(a.is_passed)
      ]_vars

\* a submission whose computed score, 42, equals the test's passing_score
\* has passed
C6_Witness ==
    /\ Succeeded(1, "submitTestAttempt")
    /\ TestById(SubmittedAttempt.test_id).passing_score = 42
    /\ SubmittedAttempt.score = Some(Num(42))
    /\ SubmittedAttempt.is_passed = Some(TRUE)

\* C7: every answer present in the map, the empty and the whitespace-only
\* string included, is graded correct exactly when its trimmed, lower-cased
\* form equals the trimmed, lower-cased correct_answer; so answer maps that
\* differ only in case and outer whitespace receive the same score.
C7_NormalizedMatch ==
    Succeeded(1, "submitTestAttempt") =>
        LET a == SubmittedAttempt
            all == QuestionsOf(a.test_id)
            answers == result[1].input.answers
            right == {q \in all : MatchesNormalized(q, answers)}
        IN  /\ IsPercentOf(Val(a.score), SumPoints(right), SumPoints(all))
            /\ \A other \in AnswerMaps(GradeKeys, StringsUpTo(MaxLen)) :
                   SameNormalized(answers, other)
                   => ToReal(scoreOf(questionsTable, other)) = Val(a.score)

\* C8: a submission of an in-progress attempt of a test with questions
\* succeeds whatever keys are missing from the map, completes the attempt, and
\* gives no points for a question whose key is missing: the score is the
\* percentage that the points of some of the questions that have a key make
\* of the points of all questions.
C8_MissingAnswers ==
    Finished(1, "submitTestAttempt") =>
        LET a == SubmittedAttempt
            all == QuestionsOf(a.test_id)
            answers == result[1].input.answers
            answered == {q \in all : ToString(q.id) \in DOMAIN answers}
        IN  /\ result[1].error = <<>>
            /\ IsCompleted(a)
            /\ ~IsNull(a.score)
            /\ \E right \in SUBSET answered :
                   IsPercentOf(Val(a.score), SumPoints(right), SumPoints(all))

\* a submission that leaves out the second of two questions and has the first
\* right
C8_Witness ==
    /\ Succeeded(1, "submitTestAttempt")
    /\ Len(questionsTable) = 2
    /\ DOMAIN result[1].input.answers = {"1"}
    /\ AtLeast(Val(SubmittedAttempt.score), Num(1))
    /\ ~AtLeast(Val(SubmittedAttempt.score), Num(100))

LessonsOfCourse(c) == {l.id : l \in {x \in Range(lessonsTable) : x.course_id = c}}

CourseOfLesson(l) == (CHOOSE x \in Range(lessonsTable) : x.id = l).course_id

\* the lessons of course c that student s has a completed lesson_progress row for
CompletedLessons(s, c) ==
    {l \in LessonsOfCourse(c) :
        \E r \in Range(lessonProgressTable) :
            r.student_id = s /\ r.lesson_id = l /\ r.is_completed}

\* positions of the lesson_progress rows of a (student, lesson) pair
ProgressRowsOf(table, s, l) ==
    {i \in DOMAIN table : table[i].student_id = s /\ table[i].lesson_id = l}

\* C9 as stated: after a markLessonComplete call of an enrolled student,
\* with k of the N lessons of the course completed, the enrollment's
\* progress_percentage equals 100 * k / N; when k = N it is 100 with status
\* completed and completed_at set, and when k < N the status is active and
\* completed_at is null.
C9_CascadeExact ==
    Succeeded(1, "markLessonComplete") =>
        LET s == result[1].input.student_id
            c == CourseOfLesson(result[1].input.lesson_id)
            N == Cardinality(LessonsOfCourse(c))
            k == Cardinality(CompletedLessons(s, c))
        IN  \A e \in Range(enrollmentsTable) :
                (e.student_id = s /\ e.course_id = c) =>
                    /\ IsExactPercentOf(e.progress_percentage, k, N)
                    /\ IF k = N
                       THEN /\ e.status = "completed"
                            /\ ~IsNull(e.completed_at)
                       ELSE /\ e.status = "active"
                            /\ IsNull(e.completed_at)

\* C9: after a markLessonComplete call of an enrolled student, with k of the
\* N lessons of the course completed, the enrollment's progress_percentage is
\* a single-precision number nearest to 100 * k / N; when k = N it is 100
\* with status completed and completed_at set, and when k < N the status is
\* active and completed_at is null.
C9_CascadeCompleteness ==
    Succeeded(1, "markLessonComplete") =>
        LET s == result[1].input.student_id
            c == CourseOfLesson(result[1].input.lesson_id)
            N == Cardinality(LessonsOfCourse(c))
            k == Cardinality(CompletedLessons(s, c))
        IN  \A e \in Range(enrollmentsTable) :
                (e.student_id = s /\ e.course_id = c) =>
                    /\ IsPercentOf(e.progress_percentage, k, N)
                    /\ IF k = N
                       THEN /\ e.progress_percentage = Num(100)
                            /\ e.status = "completed"
                            /\ ~IsNull(e.completed_at)
                       ELSE /\ e.status = "active"
                            /\ IsNull(e.completed_at)

\* an enrolled student completed the last of three lessons, and the
\* enrollment went through 33.33333206176758 and 66.66666412353516
C9_Witness ==
    /\ Succeeded(1, "markLessonComplete")
    /\ Cardinality(LessonsOfCourse(
           CourseOfLesson(result[1].input.lesson_id))) = 3
    /\ \E e \in Range(enrollmentsTable) :
           /\ e.student_id = result[1].input.student_id
           /\ e.course_id = CourseOfLesson(result[1].input.lesson_id)
           /\ e.status = "completed"
           /\ e.progress_percentage = Num(100)

\* C10: with one request at a time, the upsert of a (student, lesson) pair
\* that already has a completed lesson_progress row leaves exactly one row for
\* the pair, still completed, and no step ever lowers an enrollment's
\* progress_percentage.
C10_CascadeIdempotence ==
    [][ /\ \A i \in DOMAIN enrollmentsTable :
               AtLeast(enrollmentsTable'[i].progress_percentage,
                   enrollmentsTable[i].progress_percentage)
        /\ \A p \in Procs :
               ( /\ pc[p] = "markLessonComplete_upsert"
                 /\ pc'[p] # "markLessonComplete_upsert"
                 /\ \E i \in ProgressRowsOf(lessonProgressTable,
                                            input[p].student_id,
                                            input[p].lesson_id) :
                        lessonProgressTable[i].is_completed )
               => LET rows == ProgressRowsOf(lessonProgressTable',
                                             input[p].student_id,
                                             input[p].lesson_id)
                  IN  /\ Cardinality(rows) = 1
                      /\ \A i \in rows : lessonProgressTable'[i].is_completed
      ]_vars

\* an enrolled student completed again a lesson that was already completed:
\* the call returned a row older than the newest one
C10_Witness ==
    /\ Succeeded(1, "markLessonComplete")
    /\ Val(result[1].value).id < Len(lessonProgressTable)
    /\ \E e \in Range(enrollmentsTable) :
           /\ e.student_id = result[1].input.student_id
           /\ e.course_id = CourseOfLesson(result[1].input.lesson_id)
           /\ AtLeast(e.progress_percentage, Num(1))

\* no request is being served
Quiescent == \A p \in Procs : pc[p] = "idle"

\* positions of the completed lesson_progress rows of student s whose lesson
\* belongs to course c
CompletedRows(s, c) ==
    {i \in DOMAIN lessonProgressTable :
        /\ lessonProgressTable[i].student_id = s
        /\ lessonProgressTable[i].is_completed
        /\ lessonProgressTable[i].lesson_id \in LessonsOfCourse(c)}

EnrollmentsOf(s, c) ==
    {e \in Range(enrollmentsTable) : e.student_id = s /\ e.course_id = c}

\* C11: between calls, whatever the order of the createEnrollment and
\* markLessonComplete calls made so far, every enrollment (s, c) of a course
\* with lessons has progress_percentage = 100 * (completed lesson_progress
\* rows of s whose lesson belongs to c) / (lessons of c).
C11_ProgressAggregate ==
    Quiescent =>
        \A e \in Range(enrollmentsTable) :
            LET N == Cardinality(LessonsOfCourse(e.course_id))
                k == Cardinality(CompletedRows(e.student_id, e.course_id))
            IN  N > 0 => IsPercentOf(e.progress_percentage, k, N)

\* C13: a markLessonComplete call for an existing lesson made while the
\* student has no enrollment in the lesson's course ends with an error, and
\* every completed lesson_progress row belongs to a student enrolled in the
\* course of its lesson.
C13_EnrollmentRequired ==
    /\ ( /\ Finished(1, "markLessonComplete")
         /\ result[1].input.lesson_id \in {l.id : l \in Range(lessonsTable)}
         /\ EnrollmentsOf(result[1].input.student_id,
                          CourseOfLesson(result[1].input.lesson_id)) = {} )
       => result[1].error # <<>>
    /\ \A r \in Range(lessonProgressTable) :
           r.is_completed
           => EnrollmentsOf(r.student_id, CourseOfLesson(r.lesson_id)) # {}

\* C12: between calls, whatever createEnrollment, createLesson and
\* markLessonComplete calls were made so far, an enrollment has status
\* completed exactly when its stored progress_percentage is 100, and a
\* completed enrollment has a completed_at.
C12_CompletionStatus ==
    Quiescent =>
        \A e \in Range(enrollmentsTable) :
            /\ e.status = "completed" <=> e.progress_percentage = Num(100)
            /\ e.status = "completed" => ~IsNull(e.completed_at)

\* C19: an enrollment's completed_at changes only in the step that takes its
\* status from active to completed, and no step changes the completed_at of
\* an enrollment that is already completed.
C19_CompletionOnce ==
    [][ \A i \in DOMAIN enrollmentsTable :
            LET old == enrollmentsTable[i]
                new == enrollmentsTable'[i]
            IN  /\ old.status = "completed"
                       => new.completed_at = old.completed_at
                /\ new.completed_at # old.completed_at
                       => old.status = "active" /\ new.status = "completed"
      ]_vars

\* C14: a createTestAttempt, submitTestAttempt or markLessonComplete call
\* that ends with an error has changed none of test_attempts, lesson_progress
\* and enrollments: neither its last step nor any step before it wrote.
C14_AllOrNothing ==
    [][ \A p \in Procs :
            ( /\ pc[p] # "idle"
              /\ pc'[p] = "idle"
              /\ input[p].op \in {"createTestAttempt", "submitTestAttempt",
                                  "markLessonComplete"}
              /\ result'[p].error # <<>> )
            => /\ store' = store
               /\ ~wrote[p]
      ]_vars

\* C16: at most one lesson_progress row exists per (student, lesson), also
\* when markLessonComplete calls for the same pair interleave.
C16_ProgressRowUnique ==
    \A s \in IdsFor(usersTable), l \in IdsFor(lessonsTable) :
        Cardinality(ProgressRowsOf(lessonProgressTable, s, l)) <= 1

\* C15: once two markLessonComplete calls of one student for two different
\* lessons of one course have both returned, however they interleaved, the
\* enrollment's progress_percentage counts every completed lesson, and is 100
\* with status completed when all lessons of the course are completed.  (Stated
\* for the states in which no (student, lesson) pair has two rows.)
C15_NoLostUpdate ==
    \A p, q \in Procs :
        ( /\ p # q
          /\ C16_ProgressRowUnique
          /\ Succeeded(p, "markLessonComplete")
          /\ Succeeded(q, "markLessonComplete")
          /\ result[p].input.student_id = result[q].input.student_id
          /\ result[p].input.lesson_id # result[q].input.lesson_id
          /\ CourseOfLesson(result[p].input.lesson_id)
                = CourseOfLesson(result[q].input.lesson_id) )
        => LET s == result[p].input.student_id
               c == CourseOfLesson(result[p].input.lesson_id)
               N == Cardinality(LessonsOfCourse(c))
               k == Cardinality(CompletedLessons(s, c))
           IN  \A e \in EnrollmentsOf(s, c) :
                   /\ IsPercentOf(e.progress_percentage, k, N)
                   /\ k = N => /\ e.progress_percentage = Num(100)
                               /\ e.status = "completed"

\* C17: every test_attempts row has score, is_passed and completed_at all
\* null or all non-null.
C17_AtomicCompletion ==
    \A a \in Range(testAttemptsTable) :
        \/ IsNull(a.score) /\ IsNull(a.is_passed) /\ IsNull(a.completed_at)
        \/ ~IsNull(a.score) /\ ~IsNull(a.is_passed) /\ ~IsNull(a.completed_at)

\* an in-progress attempt next to an attempt completed with score 0 and a
\* failed verdict
C17_Witness ==
    \E a, b \in Range(testAttemptsTable) :
        /\ IsNull(a.completed_at)
        /\ b.score = Some(Num(0))
        /\ b.is_passed = Some(FALSE)
        /\ ~IsNull(b.completed_at)

\* C20: a submitTestAttempt call on an in-progress attempt ends with the
\* no-questions error while the attempt's test has no questions, and leaves
\* test_attempts as it was, the attempt in progress with score, is_passed and
\* completed_at null; once the test has questions the same call succeeds and
\* completes the attempt.
C20_EmptyTest ==
    [][ \A p \in Procs :
            \A i \in DOMAIN testAttemptsTable :
                ( /\ Returns(p, "submitTestAttempt")
                  /\ testAttemptsTable[i].id = input[p].attempt_id
                  /\ ~IsCompleted(testAttemptsTable[i]) )
                => IF QuestionsOf(testAttemptsTable[i].test_id) = {}
                   THEN /\ result'[p].error = <<"No questions found for test">>
                        /\ testAttemptsTable' = testAttemptsTable
                        /\ IsNull(testAttemptsTable'[i].score)
                        /\ IsNull(testAttemptsTable'[i].is_passed)
                        /\ IsNull(testAttemptsTable'[i].completed_at)
                   ELSE /\ result'[p].error = <<>>
                        /\ IsCompleted(testAttemptsTable'[i])
      ]_vars

\* a submission was refused because the test has no questions, and the
\* attempt is still in progress
C20_Witness ==
    /\ Failed(1, "submitTestAttempt", "No questions found for test")
    /\ QuestionsOf(SubmittedAttempt.test_id) = {}
    /\ IsNull(SubmittedAttempt.score)
    /\ IsNull(SubmittedAttempt.is_passed)
    /\ IsNull(SubmittedAttempt.completed_at)

\* C21: a submitTestAttempt call whose attempt id matches no test_attempts
\* row ends with the attempt-not-found error and leaves test_attempts as it
\* was.
C21_UnknownAttempt ==
    [][ \A p \in Procs :
            ( /\ Returns(p, "submitTestAttempt")
              /\ \A a \in Range(testAttemptsTable) :
                     a.id # input[p].attempt_id )
            => /\ result'[p].error = <<"Test attempt not found">>
               /\ testAttemptsTable' = testAttemptsTable
      ]_vars

\* a submission for an id that matches none of the existing attempts was
\* refused
C21_Witness ==
    /\ Failed(1, "submitTestAttempt", "Test attempt not found")
    /\ testAttemptsTable # <<>>
    /\ \A a \in Range(testAttemptsTable) : a.id # result[1].input.attempt_id

\* the user with this id exists and has role student
IsStudent(id) == \E u \in Range(usersTable) : u.id = id /\ u.role = "student"

\* C22: a createTestAttempt call for a test id that does not exist ends with
\* the test-not-found error; for an existing test and a student id that does
\* not exist or belongs to an instructor it ends with the student-not-found
\* error; neither inserts a row.  The student check is reached only after the
\* test check has passed, and the limit check only after both have.
C22_StartPreconditions ==
    [][ \A p \in Procs :
            /\ Returns(p, "createTestAttempt")
                   => IF input[p].test_id \notin TestIds
                      THEN /\ result'[p].error =
                                  <<"Test not found", input[p].test_id>>
                           /\ testAttemptsTable' = testAttemptsTable
                      ELSE ~IsStudent(input[p].student_id)
                           => /\ result'[p].error =
                                     <<"Student not found", input[p].student_id>>
                              /\ testAttemptsTable' = testAttemptsTable
            /\ pc'[p] = "createTestAttempt_student"
                   => input'[p].test_id \in TestIds
            /\ pc'[p] = "createTestAttempt_count"
                   => /\ input'[p].test_id \in TestIds
                      /\ IsStudent(input'[p].student_id)
      ]_vars

\* a call naming an unknown test and an instructor was refused for the test
C22_Witness ==
    /\ Failed(2, "createTestAttempt", "Test not found")
    /\ \E u \in Range(usersTable) :
           u.id = result[2].input.student_id /\ u.role = "instructor"

\* C23: a successful createTestAttempt call appends exactly one row to
\* test_attempts, for the given test and student, with score, completed_at and
\* is_passed null and an empty answers map, and returns that row; every other
\* test_attempts row, every enrollment and every lesson_progress row is as
\* before.
C23_StartEffect ==
    [][ \A p \in Procs :
            ( /\ Returns(p, "createTestAttempt")
              /\ result'[p].error = <<>> )
            => LET new == testAttemptsTable'[Len(testAttemptsTable')]
               IN  /\ Len(testAttemptsTable') = Len(testAttemptsTable) + 1
                   /\ SubSeq(testAttemptsTable', 1, Len(testAttemptsTable))
                          = testAttemptsTable
                   /\ \A a \in Range(testAttemptsTable) : a.id # new.id
                   /\ new.test_id = input[p].test_id
                   /\ new.student_id = input[p].student_id
                   /\ IsNull(new.score)
                   /\ DOMAIN new.answers = {}
                   /\ new.started_at = now
                   /\ IsNull(new.completed_at)
                   /\ IsNull(new.is_passed)
                   /\ result'[p].value = Some(new)
                   /\ enrollmentsTable' = enrollmentsTable
                   /\ lessonProgressTable' = lessonProgressTable
      ]_vars

\* a second attempt was started while the first was completed and the
\* student had an enrollment and a lesson_progress row
C23_Witness ==
    /\ Succeeded(1, "createTestAttempt")
    /\ Len(testAttemptsTable) >= 2
    /\ IsCompleted(testAttemptsTable[1])
    /\ enrollmentsTable # <<>>
    /\ lessonProgressTable # <<>>

\* C24: after a successful submitTestAttempt call the attempt's stored
\* answers are exactly the submitted map, same keys and same values as
\* submitted, and the returned attempt carries the same map.
C24_AnswersOverwritten ==
    Succeeded(1, "submitTestAttempt") =>
        /\ SubmittedAttempt.answers = result[1].input.answers
        /\ Val(result[1].value).answers = result[1].input.answers

\* a submission to a one-question test whose map has a value with outer
\* whitespace and an upper-case letter, and a key that matches no question
C24_Witness ==
    /\ Succeeded(1, "submitTestAttempt")
    /\ Len(questionsTable) = 1
    /\ DOMAIN SubmittedAttempt.answers = {"1", "2"}
    /\ SubmittedAttempt.answers["1"] = <<32, 65>>

\* the step is one of process p's call of handler op
StepOf(p, op) == pc[p] # "idle" /\ pc'[p] # pc[p] /\ input[p].op = op

\* C25: every step of a markLessonComplete(s, l) call, also while a call of
\* another student is in flight, leaves unchanged every lesson_progress row
\* that is not of (s, l) and every enrollment that is not of s in the course
\* of l, and adds rows only for (s, l); every step of a createTestAttempt(s, t)
\* call leaves the number of attempts of every other (student, test) pair
\* unchanged.
C25_Isolation ==
    [][ \A p \in Procs :
            /\ StepOf(p, "markLessonComplete")
                   => LET s == input[p].student_id
                          l == input[p].lesson_id
                      IN  /\ Len(lessonProgressTable')
                                 >= Len(lessonProgressTable)
                          /\ \A i \in DOMAIN lessonProgressTable' :
                                 LET new == lessonProgressTable'[i]
                                 IN  (new.student_id # s \/ new.lesson_id # l)
                                     => /\ i \in DOMAIN lessonProgressTable
                                        /\ new = lessonProgressTable[i]
                          /\ Len(enrollmentsTable') = Len(enrollmentsTable)
                          /\ \A i \in DOMAIN enrollmentsTable :
                                 LET old == enrollmentsTable[i]
                                 IN  ( \/ old.student_id # s
                                       \/ l \notin LessonsOfCourse(old.course_id) )
                                     => enrollmentsTable'[i] = old
            /\ StepOf(p, "createTestAttempt")
                   => \A s \in IdsFor(usersTable), t \in IdsFor(testsTable) :
                          (s # input[p].student_id \/ t # input[p].test_id)
                          => AttemptsOf(testAttemptsTable', s, t)
                                 = AttemptsOf(testAttemptsTable, s, t)
      ]_vars

\* student 1 has completed course 1 while a markLessonComplete call of
\* student 2, whose row for the same lesson is already written, is in flight
\* and the enrollment of student 2 still shows no progress
C25_Witness ==
    /\ Succeeded(1, "markLessonComplete")
    /\ pc[2] = "updateCourseProgress_enrollment"
    /\ input[2].lesson_id = result[1].input.lesson_id
    /\ \E e \in EnrollmentsOf(1, 1) : e.status = "completed"
    /\ \E e \in EnrollmentsOf(2, 1) : e.progress_percentage = Num(0)
    /\ \E e \in EnrollmentsOf(1, 2) : e.progress_percentage = Num(0)
    /\ testAttemptsTable # <<>>

\* positions of the enrollments rows of a (student, course) pair
EnrollmentRowsOf(table, s, c) ==
    {i \in DOMAIN table : table[i].student_id = s /\ table[i].course_id = c}

\* C26: a successful createEnrollment call appends one enrollment of the
\* given student and course with status active, progress_percentage 0 and
\* completed_at null; a call for a pair that already has an enrollment ends
\* with the already-enrolled error and changes nothing; so with one request at
\* a time no (student, course) pair ever has two enrollments.
C26_EnrollmentCreation ==
    [][ /\ \A p \in Procs :
               Returns(p, "createEnrollment")
               => IF EnrollmentRowsOf(enrollmentsTable, input[p].student_id,
                                      input[p].course_id) # {}
                  THEN /\ result'[p].error =
                              <<"Student is already enrolled in this course">>
                       /\ enrollmentsTable' = enrollmentsTable
                  ELSE result'[p].error = <<>>
                       => LET new == enrollmentsTable'[Len(enrollmentsTable')]
                          IN  /\ enrollmentsTable' =
                                     Append(enrollmentsTable, new)
                              /\ new.student_id = input[p].student_id
                              /\ new.course_id = input[p].course_id
                              /\ new.status = "active"
                              /\ new.progress_percentage = Num(0)
                              /\ IsNull(new.completed_at)
                              /\ result'[p].value = Some(new)
        /\ \A s \in IdsFor(usersTable), c \in IdsFor(coursesTable) :
               Cardinality(EnrollmentRowsOf(enrollmentsTable', s, c)) <= 1
      ]_vars

\* a student who has completed a course asked to enroll in it again and was
\* refused
C26_Witness ==
    /\ Failed(1, "createEnrollment",
              "Student is already enrolled in this course")
    /\ \E e \in EnrollmentsOf(result[1].input.student_id,
                               result[1].input.course_id) :
           e.status = "completed"

SlotById(table, id) == CHOOSE c \in Range(table) : c.id = id

\* C27: with one request at a time, a bookConsultation call succeeds only
\* for a student and a slot whose status is available, and then the slot is
\* booked with the student's id; on a slot that is unknown or has another
\* status it ends with an error and leaves consultation_slots as it was; so no
\* step changes a slot that is not available, and a booked slot keeps the
\* student of the booking that succeeded.
C27_BookingOnce ==
    [][ /\ \A p \in Procs :
               Returns(p, "bookConsultation")
               => IF /\ IsStudent(input[p].student_id)
                     /\ \E c \in Range(consultationSlotsTable) :
                            c.id = input[p].slot_id /\ c.status = "available"
                  THEN /\ result'[p].error = <<>>
                       /\ LET c == SlotById(consultationSlotsTable',
                                            input[p].slot_id)
                          IN  /\ c.status = "booked"
                              /\ c.student_id = Some(input[p].student_id)
                              /\ result'[p].value = Some(c)
                  ELSE /\ result'[p].error # <<>>
                       /\ consultationSlotsTable' = consultationSlotsTable
        /\ \A i \in DOMAIN consultationSlotsTable :
               consultationSlotsTable[i].status # "available"
               => consultationSlotsTable'[i] = consultationSlotsTable[i]
      ]_vars

\* a student asked, later and with notes, for the slot another student had
\* booked, and was refused
C27_Witness ==
    /\ Failed(1, "bookConsultation",
              "Consultation slot not found or not available")
    /\ result[1].input.slot_id = 1
    /\ result[1].input.notes # Null
    /\ IsStudent(result[1].input.student_id)
    /\ consultationSlotsTable[1].status = "booked"
    /\ consultationSlotsTable[1].student_id
           # Some(result[1].input.student_id)
    /\ now > consultationSlotsTable[1].updated_at

\* C30: when two bookConsultation calls of different students for the same
\* slot interleave, at most one of them returns the booked slot, the other
\* ends with an error, and the slot's student_id is the student of the call
\* that succeeded.
C30_NoDoubleBooking ==
    \A p, q \in Procs :
        ( /\ p # q
          /\ Succeeded(p, "bookConsultation")
          /\ Finished(q, "bookConsultation")
          /\ result[q].input.slot_id = result[p].input.slot_id
          /\ result[q].input.student_id # result[p].input.student_id )
        => /\ result[q].error # <<>>
           /\ SlotById(consultationSlotsTable,
                       result[p].input.slot_id).student_id
                  = Some(result[p].input.student_id)

\* C28: every enrollment's progress_percentage is within 0..100, also in
\* the states reached when markLessonComplete calls of one student interleave.
C28_ProgressRange ==
    \A e \in Range(enrollmentsTable) :
        /\ AtLeast(e.progress_percentage, Num(0))
        /\ AtLeast(Num(100), e.progress_percentage)

\* the attempts the read accessor call that process 1 has finished returned
ReturnedAttempts ==
    IF result[1].op = "getTestAttemptById"
    THEN {Val(result[1].value)[i] : i \in DOMAIN Val(result[1].value)}
    ELSE Range(Val(result[1].value))

\* C29: every attempt returned by getTestAttemptById,
\* getTestAttemptsByStudent or getTestAttemptsByTest carries the score stored
\* in its test_attempts row, so its score is null exactly when the attempt is
\* in progress, and its score, is_passed and completed_at are all null or all
\* non-null.
C29_ReadAgreesWithStore ==
    ( /\ pc[1] = "idle"
      /\ result[1].op \in {"getTestAttemptById", "getTestAttemptsByStudent",
                            "getTestAttemptsByTest"} )
    => \A r \in ReturnedAttempts :
           /\ \E a \in Range(testAttemptsTable) :
                  a.id = r.id /\ r.score = a.score
           /\ IsNull(r.score) <=> IsNull(r.completed_at)
           /\ \/ IsNull(r.score) /\ IsNull(r.is_passed) /\ IsNull(r.completed_at)
              \/ /\ ~IsNull(r.score)
                 /\ ~IsNull(r.is_passed)
                 /\ ~IsNull(r.completed_at)

====
